---- MODULE Spec2Model ----
(***************************************************************************)
(* State-machine model of the SAT variable-clustering pipeline:            *)
(*   - the VIG builders of src/src/common/vig.cpp (naive and optimized),   *)
(*   - the disjoint-set store of src/src/common/disjoint_set.cpp,          *)
(*   - the FH segmenter of src/src/common/segmentation.cpp,                *)
(*   - the DIMACS reader of src/include/thesis/cnf.hpp,                    *)
(*   - modularity() of src/include/thesis/modularity.hpp.                  *)
(* Each subsystem has its own specification (Spec, SpecDsu, SpecSeg,       *)
(* SpecCnf, SpecMod); the variables of the other subsystems are held       *)
(* constant under each.                                                    *)
(***************************************************************************)
EXTENDS Integers, Sequences, FiniteSets, TLC

VARIABLES
  \* ---- VIG builders: inputs
  n,                \* cnf.get_variable_count()
  clauses,          \* cnf.get_clauses(): sequence of normalized clauses
  tau,              \* clause_size_threshold
  num_threads,      \* num_threads argument
  maxbuf,           \* max_buffer_contributions argument
  \* ---- VIG builders: calling thread
  mpc,              \* position of the calling thread
  naive_edges,      \* result.edges of build_vig_naive
  result_edges,     \* result.edges of build_vig_optimized
  \* ---- optimized builder: plan (locals of build_vig_optimized)
  contrib_counts,   \* per-variable contribution counts
  batches,          \* sequence of [start, end]
  rounds,
  \* ---- optimized builder: state shared by the workers
  r_idx,            \* std::atomic<size_t> r_idx
  var_to_active,    \* var -> active batch id in current round, -1 if none
  active,           \* sequence of ActiveBatch
  batch_count_cur,
  worker_edges,     \* per-thread edge buffers
  sync,             \* std::barrier: [count, gen]
  \* ---- optimized builder: per-worker locals
  pc, wr, wci, wi, wpos0, wgen,
  \* ---- optimized builder: history (not program state)
  hist

vigVars == <<n, clauses, tau, num_threads, maxbuf, mpc, naive_edges, result_edges,
             contrib_counts, batches, rounds, r_idx, var_to_active, active,
             batch_count_cur, worker_edges, sync, pc, wr, wci, wi, wpos0, wgen, hist>>

VARIABLES
  \* ---- DisjointSets (also the segmenter's dsu_ member)
  parent_,          \* std::vector<unsigned> parent_, indexed from 0
  rank_,            \* std::vector<unsigned char> rank_
  comp_count_,
  ret,              \* value returned by the last DisjointSets call
  part              \* history: the partition the unite calls ask for

dsuVars == <<parent_, rank_, comp_count_, ret, part>>

VARIABLES
  \* ---- GraphSegmenterFH: members
  sum_weights_, comp_size_, max_dist_, lb_comp_internal_w_, comp_vol_, k_, cfg_,
  d_scale_, intercomp_candidates_,
  mod_guard_ub_rejects_, mod_guard_ambiguous_, mod_guard_lb_accepts_,
  \* ---- GraphSegmenterFH: the caller and run()
  spc,              \* position of the caller: idle, loop (inside run), done, crashed
  edges,            \* the caller's edge vector (sorted in place by run)
  ei,               \* index of the next edge of the main loop of run
  out,              \* result of strongest_inter_component_edges(), as a set
  \* ---- GraphSegmenterFH: history (not program state)
  input,            \* the edges as passed to run()
  mlog,             \* one record per merge, taken on the state before it
  gate_passed,      \* edges so far that were cross-component and passed the gate
  first_run         \* what an earlier run() on this object left behind, if any

segMembers == <<sum_weights_, comp_size_, max_dist_, lb_comp_internal_w_, comp_vol_,
                k_, cfg_, d_scale_, intercomp_candidates_,
                mod_guard_ub_rejects_, mod_guard_ambiguous_, mod_guard_lb_accepts_>>
segVars == <<segMembers, spc, edges, ei, out, input, mlog, gate_passed, first_run>>

VARIABLES
  \* ---- CNF: members
  valid, variable_count, clause_count,
  cnf_clauses,      \* std::vector<std::vector<int>> clauses
  \* ---- CNF: the caller
  text,             \* the DIMACS input, a sequence of lines of tokens
  cnf_hist          \* history: the last call on the object and the state it found

cnfVars == <<valid, variable_count, clause_count, cnf_clauses, text, cnf_hist>>

VARIABLES
  \* ---- modularity(): one call
  q_in,             \* the arguments: n, edges, the labels comm_of(0..n-1), gamma
  q_out,            \* the value returned
  qpc,              \* idle, call, returned, crashed
  q_junk            \* history: what the reads before the start of remap gave

modVars == <<q_in, q_out, qpc, q_junk>>

VARIABLES
  \* ---- component_sizes / summarize_components
  sizes,            \* the vector component_sizes returned
  summary,          \* the CompSummary: K, N, keff
  sumpc             \* idle, counted, summarized

sumVars == <<sizes, summary, sumpc>>

restVars == <<cnfVars, modVars, sumVars>>

vars == <<vigVars, dsuVars, segVars, restVars>>

\* A default-constructed CNF object that is not in use, and no call of
\* modularity().
NoCnfHist ==
  [op |-> "none", compaction |-> FALSE, normalize |-> FALSE, compacted |-> FALSE,
   before |-> [compacted |-> FALSE, clauses |-> <<>>, variable_count |-> 0, clause_count |-> 0]]

CnfIdle ==
  /\ valid = FALSE
  /\ variable_count = 0
  /\ clause_count = 0
  /\ cnf_clauses = <<>>
  /\ text = <<>>
  /\ cnf_hist = NoCnfHist

NoCall == [n |-> 0, edges |-> <<>>, comm |-> <<>>, gamma |-> <<1, 1>>]

ModIdle ==
  /\ q_in = NoCall
  /\ q_out = <<0, 1>>
  /\ qpc = "idle"
  /\ q_junk = <<>>

\* A double that is 0.0, and a default CompSummary.
FZero == [m |-> <<>>, e |-> 0]
NoSummary == [K |-> 0, N |-> 0, keff |-> FZero]

SumIdle == sizes = <<>> /\ summary = NoSummary /\ sumpc = "idle"

RestIdle == CnfIdle /\ ModIdle /\ SumIdle

\* A default-constructed DisjointSets and a segmenter that is not in use.
DsuIdle ==
  /\ parent_ = <<>>
  /\ rank_ = <<>>
  /\ comp_count_ = 0
  /\ ret = 0
  /\ part = {}

SegIdle ==
  /\ sum_weights_ = <<0, 1>>
  /\ comp_size_ = <<>>
  /\ max_dist_ = <<>>
  /\ lb_comp_internal_w_ = <<>>
  /\ comp_vol_ = <<>>
  /\ k_ = <<0, 1>>
  /\ cfg_ = <<>>
  /\ d_scale_ = <<1, 1>>
  /\ intercomp_candidates_ = <<>>
  /\ mod_guard_ub_rejects_ = 0
  /\ mod_guard_ambiguous_ = 0
  /\ mod_guard_lb_accepts_ = 0
  /\ spc = "unused"
  /\ edges = <<>>
  /\ ei = 0
  /\ out = {}
  /\ input = {}
  /\ mlog = <<>>
  /\ gate_passed = 0
  /\ first_run = <<>>

VigIdle ==
  /\ n = 0
  /\ clauses = <<>>
  /\ tau = 1
  /\ num_threads = 0
  /\ maxbuf = 0
  /\ mpc = "unused"
  /\ naive_edges = <<>>
  /\ result_edges = <<>>
  /\ contrib_counts = <<>>
  /\ batches = <<>>
  /\ rounds = 0
  /\ r_idx = 0
  /\ var_to_active = <<>>
  /\ active = <<>>
  /\ batch_count_cur = 0
  /\ worker_edges = <<>>
  /\ sync = [count |-> 0, gen |-> 0]
  /\ pc = <<>>
  /\ wr = <<>>
  /\ wci = <<>>
  /\ wi = <<>>
  /\ wpos0 = <<>>
  /\ wgen = <<>>
  /\ hist = <<>>

\* ------------------------------------------------------------------ bounds
MaxVars == 4
MaxClauses == 2
MaxThreads == 2
MaxBuf == 3

\* `unsigned` and uint32_t are UnsignedBits wide.  The build has 32; the
\* model runs a narrower word, so that a product of two component counts can
\* exceed it with MaxNodes nodes as it does with 65537 components in the
\* build, and a per-variable contribution count with WideClauses clauses.
UnsignedBits == 3
UMod == 2 ^ UnsignedBits

\* ----------------------------------------------------------------- helpers
Abs(x) == IF x < 0 THEN -x ELSE x
Min(a, b) == IF a < b THEN a ELSE b
Max(a, b) == IF a < b THEN b ELSE a

RECURSIVE Gcd(_, _)
Gcd(a, b) == IF b = 0 THEN a ELSE Gcd(b, a % b)
Lcm(a, b) == (a * b) \div Gcd(a, b)

Binom2(s) == (s * (s - 1)) \div 2

RECURSIVE LcmBinomUpTo(_)
LcmBinomUpTo(s) == IF s <= 2 THEN 1 ELSE Lcm(LcmBinomUpTo(s - 1), Binom2(s))

\* Weights are rationals 2/(s(s-1)); they are carried exactly as integers in
\* units of 1/WScale, WScale the least common multiple of the denominators.
WScale == LcmBinomUpTo(MaxVars)

\* A weight value is <<x, fe>>: x the exact value in units of 1/WScale, fe the
\* accumulated float rounding error in units of 1e-12 (truncated).
WZero == <<0, 0>>
WAdd(a, b) == <<a[1] + b[1], a[2] + b[2]>>
WLess(a, b) == a[1] < b[1] \/ (a[1] = b[1] /\ a[2] < b[2])

\* (variant: the factor 2 of the pair weight is dropped)
InvBinom2Half(s) == <<WScale \div (s * (s - 1)), 0>>

\* 2.0 / (s * (s - 1)) in double: exact to 1e-16, carried as exact.
InvBinom2(s) == <<WScale \div Binom2(s), 0>>

\* static_cast<float>(x) of a pair weight: the value of the nearest float,
\* i.e. the exact value plus the rounding error of the 24-bit mantissa.
FloatErr(s) ==
  CASE s = 2 -> 0
    [] s = 3 -> 9934
    [] s = 4 -> 4967
    [] s = 5 -> 1490
    [] s = 6 -> 3476
    [] OTHER -> 886
ToFloat(s, wv) == <<wv[1], wv[2] + FloatErr(s)>>

\* pack_pair / unpack_pair: (u << 32) | v is injective on 32-bit u, v; the key
\* is carried as the pair itself.
PackPair(u, v) == <<u, v>>
UnpackPair(key) == [u |-> key[1], v |-> key[2]]

VarOf(lit) == Abs(lit) - 1

\* ------------------------------------------------------------------ inputs
\* A normalized clause over variables 1..nv: non-empty, strictly ascending by
\* |literal|.  Even variables occur negated, odd ones positive.
Lit(v) == IF v % 2 = 0 THEN -v ELSE v

RECURSIVE SetToAscSeq(_)
SetToAscSeq(S) ==
  IF S = {} THEN <<>>
  ELSE LET mn == CHOOSE x \in S : \A y \in S : x <= y
       IN <<mn>> \o SetToAscSeq(S \ {mn})

NormClauses(nv) ==
  {[k \in 1..Cardinality(S) |-> Lit(SetToAscSeq(S)[k])] : S \in (SUBSET (1..nv)) \ {{}}}

ClauseLists(nv) ==
  UNION {[1..len -> NormClauses(nv)] : len \in 0..MaxClauses}

Kept(c, t) == ~(Len(c) < 2 \/ Len(c) > t)

\* ----------------------------------------------------------- naive builder
\* agg[pack_pair(u, v)] += w_pair.  Each aggregate also records how many
\* contributions it summed (n) and from which clauses (cs): history only.
AggAdd(agg, key, wv, ci) ==
  IF key \in DOMAIN agg
  THEN [agg EXCEPT ![key] = [w |-> WAdd(@.w, wv), n |-> @.n + 1, cs |-> @.cs \cup {ci}]]
  ELSE agg @@ (key :> [w |-> WAdd(WZero, wv), n |-> 1, cs |-> {ci}])

RECURSIVE NaiveInner(_, _, _, _, _)
NaiveInner(agg, cs, ci, i, j) ==
  LET c == cs[ci + 1]
      s == Len(c)
  IN IF ~(i + 1 < s) THEN agg
     ELSE IF ~(j < s) THEN NaiveInner(agg, cs, ci, i + 1, i + 2)
     ELSE LET a == VarOf(c[i + 1])
              b == VarOf(c[j + 1])
              u == Min(a, b)
              v == Max(a, b)
          IN NaiveInner(AggAdd(agg, PackPair(u, v), InvBinom2(s), ci), cs, ci, i, j + 1)

RECURSIVE NaiveOuter(_, _, _, _)
NaiveOuter(agg, cs, t, ci) ==
  IF ci >= Len(cs) THEN agg
  ELSE IF ~Kept(cs[ci + 1], t) THEN NaiveOuter(agg, cs, t, ci + 1)
  ELSE NaiveOuter(NaiveInner(agg, cs, ci, 0, 1), cs, t, ci + 1)

NaiveAgg(cs, t) == NaiveOuter(<<>>, cs, t, 0)

\* Keys in ascending order (the iteration order of the hash map is
\* unspecified; nothing below depends on it).
KeyLess(k1, k2) == k1[1] < k2[1] \/ (k1[1] = k2[1] /\ k1[2] < k2[2])

KeysToSeq(K) ==
  [k \in 1..Cardinality(K) |->
     CHOOSE x \in K : Cardinality({y \in K : KeyLess(y, x)}) = k - 1]

MkEdge(u, v, a) == [u |-> u, v |-> v, w |-> a.w, n |-> a.n, cs |-> a.cs]

\* Edge order of the final sort: w descending, then u, then v ascending.
EdgeBefore(A, B) ==
  IF A.w # B.w THEN WLess(B.w, A.w)
  ELSE IF A.u # B.u THEN A.u < B.u
  ELSE A.v < B.v

\* Position of es[i] after the sort (elements the order does not separate
\* keep their relative order).
EdgeRank(es, i) ==
  Cardinality({j \in 1..Len(es) :
                 EdgeBefore(es[j], es[i]) \/ (~EdgeBefore(es[i], es[j]) /\ j < i)}) + 1

SortEdges(es) ==
  [k \in 1..Len(es) |-> es[CHOOSE i \in 1..Len(es) : EdgeRank(es, i) = k]]

NaiveEdges(cs, t, sorted) ==
  LET agg == NaiveAgg(cs, t)
      ks == KeysToSeq(DOMAIN agg)
      es == [k \in 1..Len(ks) |-> MkEdge(UnpackPair(ks[k]).u, UnpackPair(ks[k]).v, agg[ks[k]])]
  IN IF sorted THEN SortEdges(es) ELSE es

\* ------------------------------------------------- optimized builder: plan
\* Phase 1: per-variable contribution counts.
RECURSIVE CountClause(_, _, _)
CountClause(cc, c, i) ==
  IF ~(i + 1 < Len(c)) THEN cc
  ELSE CountClause([cc EXCEPT ![VarOf(c[i + 1])] = @ + (Len(c) - 1 - i)], c, i + 1)

RECURSIVE CountContribs(_, _, _, _)
CountContribs(cc, cs, t, ci) ==
  IF ci >= Len(cs) THEN cc
  ELSE IF ~Kept(cs[ci + 1], t) THEN CountContribs(cc, cs, t, ci + 1)
  ELSE CountContribs(CountClause(cc, cs[ci + 1], 0), cs, t, ci + 1)

ContribCounts(nv, cs, t) == CountContribs([a \in 0..(nv - 1) |-> 0], cs, t, 0)

RECURSIVE SumRange(_, _, _)
SumRange(f, lo, hi) == IF lo > hi THEN 0 ELSE f[lo] + SumRange(f, lo + 1, hi)

RECURSIVE MaxRange(_, _, _)
MaxRange(f, lo, hi) == IF lo >= hi THEN f[lo] ELSE Max(f[lo], MaxRange(f, lo + 1, hi))

\* (variant: the budget is not divided among the threads)
PlanUndivided(total_contrib, t, user_maxbuf) == Max(1, user_maxbuf)

\* detail::plan: per-thread buffer from the user's budget.
Plan(total_contrib, t, user_maxbuf) ==
  LET denom == Max(1, IF t > 0 THEN t - 1 ELSE 0)
  IN Max(1, user_maxbuf \div denom)

PerThreadBuffer(cc, nv, t, mb) ==
  LET total_contrib == SumRange(cc, 0, nv - 1)
      max_contrib == MaxRange(cc, 0, nv - 1)
      user_cap == Min(total_contrib, mb)
      per == Plan(total_contrib, t, user_cap)
  IN IF per < max_contrib THEN max_contrib ELSE per

\* Phase 2: partition the variables into batches.
RECURSIVE BatchLoop(_, _, _, _, _, _, _)
BatchLoop(bs, cc, nv, per, v, start, accum) ==
  IF ~(v < nv)
  THEN IF start < nv THEN Append(bs, [start |-> start, end |-> nv - 1]) ELSE bs
  ELSE IF accum + cc[v] > per /\ v > start
       THEN BatchLoop(Append(bs, [start |-> start, end |-> v - 1]), cc, nv, per, v + 1, v, cc[v])
       ELSE BatchLoop(bs, cc, nv, per, v + 1, start, accum + cc[v])

MakeBatches(cc, nv, per) == BatchLoop(<<>>, cc, nv, per, 0, 0, 0)

\* (variant: the round count is rounded down)
RoundsFloor(total_batches, t) == total_batches \div t

Rounds(total_batches, t) == (total_batches + t - 1) \div t

\* Clause domain per worker.
CBegin(tid) == (Len(clauses) * tid) \div num_threads
CEnd(tid) == (Len(clauses) * (tid + 1)) \div num_threads

Workers == 0..(num_threads - 1)

\* ------------------------------------------------------------------- Init
\* History of a build: who wrote the run of each (clause, position) and in
\* which round (fill), who reduced each variable's segment (acc), how many loop
\* iterations each worker started (iter) and how often it arrived at the
\* barrier (arrivals), whether a write landed outside its variable's segment
\* (stray) or outside the buffer (ub).
NoHist == [fill |-> <<>>, acc |-> <<>>, iter |-> <<>>, arrivals |-> <<>>,
           stray |-> FALSE, ub |-> FALSE]

\* The (clause, position) pairs that contribute a run: kept clauses, i + 1 < s.
FillKeys(cs, t) ==
  {<<ci, i>> \in (0..(Len(cs) - 1)) \X (0..(MaxVars - 1)) :
      Kept(cs[ci + 1], t) /\ i + 1 < Len(cs[ci + 1])}

Init ==
  /\ n \in 0..MaxVars
  /\ clauses \in ClauseLists(n)
  /\ tau \in 1..MaxVars
  /\ num_threads \in 0..MaxThreads
  /\ maxbuf \in 0..MaxBuf
  /\ mpc = "call_naive"
  /\ naive_edges = <<>>
  /\ result_edges = <<>>
  /\ contrib_counts = <<>>
  /\ batches = <<>>
  /\ rounds = 0
  /\ r_idx = 0
  /\ var_to_active = <<>>
  /\ active = <<>>
  /\ batch_count_cur = 0
  /\ worker_edges = <<>>
  /\ sync = [count |-> 0, gen |-> 0]
  /\ pc = <<>>
  /\ wr = <<>>
  /\ wci = <<>>
  /\ wi = <<>>
  /\ wpos0 = <<>>
  /\ wgen = <<>>
  /\ hist = NoHist
  /\ DsuIdle
  /\ SegIdle
  /\ RestIdle

planVars == <<contrib_counts, batches, rounds>>
inputVars == <<n, clauses, tau, num_threads, maxbuf>>
sharedVars == <<r_idx, var_to_active, active, batch_count_cur, worker_edges, sync>>
localVars == <<pc, wr, wci, wi, wpos0, wgen>>

\* -------------------------------------------------------- calling thread
\* build_vig_naive(cnf, tau, sort_descending_by_weight)
BuildVigNaive ==
  /\ mpc = "call_naive"
  /\ \E sorted \in BOOLEAN : naive_edges' = NaiveEdges(clauses, tau, sorted)
  /\ mpc' = "call_opt"
  /\ UNCHANGED <<inputVars, result_edges, planVars, sharedVars, localVars, hist>>
  /\ UNCHANGED <<dsuVars, segVars, restVars>>

\* build_vig_optimized up to the launch of the pool: the argument checks,
\* phase 1, phase 2 and the set-up of the shared state.
OptStart ==
  /\ mpc = "call_opt"
  /\ IF n = 0
     THEN /\ mpc' = "returned"
          /\ UNCHANGED <<planVars, sharedVars, localVars, hist>>
     ELSE IF maxbuf = 0 \/ num_threads = 0
     THEN /\ mpc' = "invalid_argument"
          /\ UNCHANGED <<planVars, sharedVars, localVars, hist>>
     ELSE LET cc == ContribCounts(n, clauses, tau)
              per == PerThreadBuffer(cc, n, num_threads, maxbuf)
              bs == MakeBatches(cc, n, per)
          IN /\ contrib_counts' = cc
             /\ batches' = bs
             /\ rounds' = Rounds(Len(bs), num_threads)
             /\ worker_edges' = [tid \in Workers |-> <<>>]
             /\ var_to_active' = [a \in 0..(n - 1) |-> -1]
             /\ r_idx' = 0
             /\ active' = <<>>
             /\ batch_count_cur' = 0
             /\ sync' = [count |-> 0, gen |-> 0]
             /\ pc' = [tid \in Workers |-> "load"]
             /\ wr' = [tid \in Workers |-> 0]
             /\ wci' = [tid \in Workers |-> 0]
             /\ wi' = [tid \in Workers |-> 0]
             /\ wpos0' = [tid \in Workers |-> [abi |-> 0, idx |-> 0, pos0 |-> 0]]
             /\ wgen' = [tid \in Workers |-> 0]
             /\ hist' = [hist EXCEPT !.fill = [x \in FillKeys(clauses, tau) |-> <<>>],
                                     !.acc = [a \in 0..(n - 1) |-> <<>>],
                                     !.iter = [tid \in Workers |-> 0],
                                     !.arrivals = [tid \in Workers |-> 0]]
             /\ mpc' = "join"
  /\ UNCHANGED <<inputVars, naive_edges, result_edges>>
  /\ UNCHANGED <<dsuVars, segVars, restVars>>

\* ---------------------------------------------------------------- workers
\* std::barrier sync(t): arrive_and_wait is an arrival, which completes the
\* phase when it is the last of num_threads, followed by a wait for the phase
\* to complete.
BarrierPcs == {"b1", "b2", "b3", "b4"}
WaitPcs == {"w1", "w2", "w3", "w4"}
WaitOf(p) == CASE p = "b1" -> "w1" [] p = "b2" -> "w2" [] p = "b3" -> "w3" [] OTHER -> "w4"
\* (variant: only worker 0 waits at the barrier that ends a round)
AfterBarrierSkip(p, tid) ==
  CASE p = "w1" -> "fill"
    [] p = "w2" -> "accum"
    [] p = "w3" -> IF tid = 0 THEN "cleanup" ELSE "load"
    [] OTHER -> "load"

AfterBarrier(p, tid) ==
  CASE p = "w1" -> "fill"
    [] p = "w2" -> "accum"
    [] p = "w3" -> IF tid = 0 THEN "cleanup" ELSE "b4"
    [] OTHER -> "load"

BarrierArrive(b) ==
  IF b.count + 1 = num_threads THEN [count |-> 0, gen |-> b.gen + 1]
  ELSE [count |-> b.count + 1, gen |-> b.gen]

\* const size_t r = r_idx.load(); if (r >= rounds) break;
LoadRound(tid) ==
  /\ pc[tid] = "load"
  /\ IF r_idx >= rounds
     THEN /\ pc' = [pc EXCEPT ![tid] = "exit"]
          /\ UNCHANGED <<wr, hist>>
     ELSE /\ wr' = [wr EXCEPT ![tid] = r_idx]
          /\ pc' = [pc EXCEPT ![tid] = IF tid = 0 THEN "prepare" ELSE "b1"]
          /\ hist' = [hist EXCEPT !.iter[tid] = @ + 1]
  /\ UNCHANGED <<inputVars, mpc, naive_edges, result_edges, planVars, sharedVars,
                 wci, wi, wpos0, wgen>>
  /\ UNCHANGED <<dsuVars, segVars, restVars>>

ZeroEntry == [b |-> 0, w |-> WZero, ci |-> -1, nw |-> 0]

\* ab.offsets[idx] = static_cast<uint32_t>(pref64)
PrefixOffset(bch, idx) == SumRange(contrib_counts, bch.start, bch.start + idx - 1) % UMod

\* One ActiveBatch of prepare_round: prefix offsets narrowed to the width,
\* narrowed counts, the write pointers and the zero-filled buffer, its length
\* the last offset plus the last count.  (It is built for batches whose
\* counts passed the guard of prepare_round.)
MakeActive(bch) ==
  LET sV == bch.start
      eV == bch.end
      len == eV - sV + 1
      offs == [idx \in 0..(len - 1) |-> PrefixOffset(bch, idx)]
      cnts == [idx \in 0..(len - 1) |-> contrib_counts[sV + idx]]
      total_sz == offs[len - 1] + cnts[len - 1]
  IN [start |-> sV, end |-> eV, offsets |-> offs, counts32 |-> cnts,
      wptrs |-> offs, buffer |-> [p \in 0..(total_sz - 1) |-> ZeroEntry]]

\* const size_t first_batch = r * t;
FirstBatchSkew(r) == r
FirstBatch(r) == r * num_threads

\* std::numeric_limits<uint32_t>::max()
U32Max == UMod - 1

\* if (c64 > std::numeric_limits<uint32_t>::max()) throw std::overflow_error
CountOverflows(bch) ==
  \E a \in bch.start..bch.end : contrib_counts[a] > U32Max

\* The prefix sum of a batch passes the width before its last variable: the
\* narrowed offsets are not the prefix sums, and the buffer is shorter than
\* the contributions of the batch.
OffsetWraps(bch) == SumRange(contrib_counts, bch.start, bch.end - 1) > U32Max

\* prepare_round(r), run by worker 0 between its load of r_idx and barrier 1.
\* The throw of the overflow guard leaves the thread function of worker 0,
\* a std::thread: std::terminate ends the process, and what prepare_round
\* had written by then goes with it.  With a wrapped offset the batches are
\* built and the fill that follows writes segments that overlap or pass the
\* end of the buffer: nothing is known of the build from there on.
PrepareRound ==
  /\ 0 \in DOMAIN pc
  /\ pc[0] = "prepare"
  /\ LET first_batch == FirstBatch(wr[0])
         bcc == Min(num_threads, Len(batches) - first_batch)
     IN IF \E bi1 \in 1..bcc : CountOverflows(batches[first_batch + bi1])
        THEN /\ mpc' = "terminated"
             /\ pc' = [tid \in DOMAIN pc |-> "dead"]
             /\ UNCHANGED <<batch_count_cur, active, var_to_active>>
        ELSE IF \E bi1 \in 1..bcc : OffsetWraps(batches[first_batch + bi1])
        THEN /\ batch_count_cur' = bcc
             /\ active' = [bi1 \in 1..bcc |-> MakeActive(batches[first_batch + bi1])]
             /\ mpc' = "undefined"
             /\ pc' = [tid \in DOMAIN pc |-> "dead"]
             /\ UNCHANGED var_to_active
        ELSE /\ batch_count_cur' = bcc
             /\ active' = [bi1 \in 1..bcc |-> MakeActive(batches[first_batch + bi1])]
             /\ var_to_active' =
                  [a \in 0..(n - 1) |->
                     IF \E bi1 \in 1..bcc : batches[first_batch + bi1].start <= a
                                             /\ a <= batches[first_batch + bi1].end
                     THEN (CHOOSE bi1 \in 1..bcc : batches[first_batch + bi1].start <= a
                                                    /\ a <= batches[first_batch + bi1].end) - 1
                     ELSE var_to_active[a]]
             /\ pc' = [pc EXCEPT ![0] = "b1"]
             /\ UNCHANGED mpc
  /\ UNCHANGED <<inputVars, naive_edges, result_edges, planVars, r_idx,
                 worker_edges, sync, wr, wci, wi, wpos0, wgen, hist>>
  /\ UNCHANGED <<dsuVars, segVars, restVars>>

\* sync.arrive_and_wait(): the arrival.
ArriveAndWait(tid) ==
  /\ pc[tid] \in BarrierPcs
  /\ sync' = BarrierArrive(sync)
  /\ wgen' = [wgen EXCEPT ![tid] = sync.gen]
  /\ pc' = [pc EXCEPT ![tid] = WaitOf(pc[tid])]
  /\ hist' = [hist EXCEPT !.arrivals[tid] = @ + 1]
  /\ UNCHANGED <<inputVars, mpc, naive_edges, result_edges, planVars, r_idx,
                 var_to_active, active, batch_count_cur, worker_edges, wr, wci, wi, wpos0>>
  /\ UNCHANGED <<dsuVars, segVars, restVars>>

\* sync.arrive_and_wait(): the wait returns once the phase has completed.
PassBarrier(tid) ==
  /\ pc[tid] \in WaitPcs
  /\ sync.gen # wgen[tid]
  /\ pc' = [pc EXCEPT ![tid] = AfterBarrier(pc[tid], tid)]
  /\ wci' = [wci EXCEPT ![tid] = IF pc[tid] = "w1" THEN CBegin(tid) ELSE @]
  /\ wi' = [wi EXCEPT ![tid] = IF pc[tid] = "w1" THEN 0 ELSE @]
  /\ UNCHANGED <<inputVars, mpc, naive_edges, result_edges, planVars, sharedVars,
                 wr, wpos0, wgen, hist>>
  /\ UNCHANGED <<dsuVars, segVars, restVars>>

\* The next (clause, position) at or after (ci, i) of the FILL scan whose
\* clause is kept and whose variable is in an active batch; <<end, 0>> if none.
RECURSIVE NextFill(_, _, _)
NextFill(ci, i, end) ==
  IF ci >= end THEN <<end, 0>>
  ELSE LET c == clauses[ci + 1]
       IN IF ~Kept(c, tau) \/ ~(i + 1 < Len(c)) THEN NextFill(ci + 1, 0, end)
          ELSE IF var_to_active[VarOf(c[i + 1])] < 0 THEN NextFill(ci, i + 1, end)
          ELSE <<ci, i>>

\* const uint32_t delta = static_cast<uint32_t>(s - 1 - i);
DeltaShort(s, i) == s - 2 - i
Delta(s, i) == s - 1 - i

\* FILL: the scan up to and including the next fetch_add on a write pointer.
FillClaim(tid) ==
  /\ pc[tid] = "fill"
  /\ LET nx == NextFill(wci[tid], wi[tid], CEnd(tid))
     IN IF nx[1] >= CEnd(tid)
        THEN /\ pc' = [pc EXCEPT ![tid] = "b2"]
             /\ wci' = [wci EXCEPT ![tid] = nx[1]]
             /\ wi' = [wi EXCEPT ![tid] = nx[2]]
             /\ UNCHANGED <<active, wpos0>>
        ELSE LET c == clauses[nx[1] + 1]
                 u == VarOf(c[nx[2] + 1])
                 abi == var_to_active[u]
                 ab == active[abi + 1]
                 idx == u - ab.start
                 delta == Delta(Len(c), nx[2])
             IN /\ wpos0' = [wpos0 EXCEPT ![tid] = [abi |-> abi, idx |-> idx,
                                                     pos0 |-> ab.wptrs[idx]]]
                /\ active' = [active EXCEPT ![abi + 1].wptrs[idx] = (@ + delta) % UMod]
                /\ wci' = [wci EXCEPT ![tid] = nx[1]]
                /\ wi' = [wi EXCEPT ![tid] = nx[2]]
                /\ pc' = [pc EXCEPT ![tid] = "write"]
  /\ UNCHANGED <<inputVars, mpc, naive_edges, result_edges, planVars, r_idx,
                 var_to_active, batch_count_cur, worker_edges, sync, wr, wgen, hist>>
  /\ UNCHANGED <<dsuVars, segVars, restVars>>

\* w_table[s] = static_cast<float>(inv_binom2(s))
WTable(s) == ToFloat(s, InvBinom2(s))

\* FILL: the run of buffer writes that follows a fetch_add; pos is a
\* uint32_t and pos++ wraps at the width.
FillWrite(tid) ==
  /\ pc[tid] = "write"
  /\ LET c == clauses[wci[tid] + 1]
         s == Len(c)
         i == wi[tid]
         delta == s - 1 - i
         abi == wpos0[tid].abi
         idx == wpos0[tid].idx
         pos0 == wpos0[tid].pos0
         ab == active[abi + 1]
         run == {(pos0 + j) % UMod : j \in 0..(delta - 1)}
         seg == ab.offsets[idx]..(ab.offsets[idx] + ab.counts32[idx] - 1)
     IN /\ active' = [active EXCEPT ![abi + 1].buffer =
                        [p \in DOMAIN @ |->
                           IF p \in run
                           THEN [b |-> VarOf(c[i + 1 + ((p - pos0) % UMod) + 1]), w |-> WTable(s),
                                 ci |-> wci[tid], nw |-> @[p].nw + 1]
                           ELSE @[p]]]
        /\ hist' = [hist EXCEPT !.fill[<<wci[tid], i>>] = Append(@, [tid |-> tid, r |-> wr[tid]]),
                                !.stray = @ \/ ~(run \subseteq seg),
                                !.ub = @ \/ ~(run \subseteq DOMAIN ab.buffer)]
  /\ wi' = [wi EXCEPT ![tid] = @ + 1]
  /\ pc' = [pc EXCEPT ![tid] = "fill"]
  /\ UNCHANGED <<inputVars, mpc, naive_edges, result_edges, planVars, r_idx,
                 var_to_active, batch_count_cur, worker_edges, sync, wr, wci, wpos0, wgen>>
  /\ UNCHANGED <<dsuVars, segVars, restVars>>

\* ACCUM: std::sort of one variable's segment by b (entries of equal b keep
\* their buffer order here; their order is unspecified and not read).
\* (variant: the segment is reduced without being sorted)
SortByBNone(seg) == seg

\* Position of seg[i] after the sort by b (entries of equal b keep their
\* relative order; their sum does not depend on it).
BRank(seg, i) ==
  Cardinality({j \in 1..Len(seg) :
                 seg[j].b < seg[i].b \/ (seg[j].b = seg[i].b /\ j < i)}) + 1

SortByB(seg) ==
  [k \in 1..Len(seg) |-> seg[CHOOSE i \in 1..Len(seg) : BRank(seg, i) = k]]

AccZero == [w |-> WZero, n |-> 0, cs |-> {}]
\* sum += static_cast<double>(p->w)
AccAdd(acc, e) == [w |-> WAdd(acc.w, e.w), n |-> acc.n + 1, cs |-> acc.cs \cup {e.ci}]

\* (variant: the running sum is not reset when b changes)
RECURSIVE ReduceNoReset(_, _, _, _, _)
ReduceNoReset(seg, p, a, curr, acc) ==
  IF p > Len(seg) THEN <<MkEdge(a, curr, acc)>>
  ELSE IF seg[p].b # curr
       THEN <<MkEdge(a, curr, acc)>> \o ReduceNoReset(seg, p + 1, a, seg[p].b, AccAdd(acc, seg[p]))
       ELSE ReduceNoReset(seg, p + 1, a, curr, AccAdd(acc, seg[p]))

\* ACCUM: the run-length reduction of a sorted segment into edges (a, curr, sum).
RECURSIVE Reduce(_, _, _, _, _)
Reduce(seg, p, a, curr, acc) ==
  IF p > Len(seg) THEN <<MkEdge(a, curr, acc)>>
  ELSE IF seg[p].b # curr
       THEN <<MkEdge(a, curr, acc)>> \o Reduce(seg, p + 1, a, seg[p].b, AccAdd(AccZero, seg[p]))
       ELSE Reduce(seg, p + 1, a, curr, AccAdd(acc, seg[p]))

Segment(ab, idx) ==
  [k \in 1..ab.counts32[idx] |-> ab.buffer[ab.offsets[idx] + k - 1]]

ReduceVar(ab, a) ==
  LET idx == a - ab.start
  IN IF ab.counts32[idx] = 0 THEN <<>>
     ELSE LET seg == SortByB(Segment(ab, idx))
          IN Reduce(seg, 1, a, seg[1].b, AccZero)

RECURSIVE ReduceBatch(_, _)
ReduceBatch(ab, a) ==
  IF a > ab.end THEN <<>> ELSE ReduceVar(ab, a) \o ReduceBatch(ab, a + 1)

\* The buffer of a batch after each of its segments was sorted in place.
SortedBuffer(ab) ==
  [p \in DOMAIN ab.buffer |->
     LET idx == CHOOSE x \in DOMAIN ab.offsets :
                  ab.offsets[x] <= p /\ p < ab.offsets[x] + ab.counts32[x]
     IN SortByB(Segment(ab, idx))[p - ab.offsets[idx] + 1]]

\* ACCUM: worker tid reduces active batch tid, if there is one.
Accum(tid) ==
  /\ pc[tid] = "accum"
  /\ IF tid < batch_count_cur
     THEN LET ab == active[tid + 1]
          IN /\ worker_edges' = [worker_edges EXCEPT ![tid] = @ \o ReduceBatch(ab, ab.start)]
             /\ active' = [active EXCEPT ![tid + 1].buffer = SortedBuffer(ab)]
             /\ hist' = [hist EXCEPT !.acc =
                           [a \in DOMAIN @ |->
                              IF ab.start <= a /\ a <= ab.end
                              THEN Append(@[a], [tid |-> tid, r |-> wr[tid]])
                              ELSE @[a]]]
     ELSE UNCHANGED <<worker_edges, active, hist>>
  /\ pc' = [pc EXCEPT ![tid] = "b3"]
  /\ UNCHANGED <<inputVars, mpc, naive_edges, result_edges, planVars, r_idx,
                 var_to_active, batch_count_cur, sync, wr, wci, wi, wpos0, wgen>>
  /\ UNCHANGED <<dsuVars, segVars, restVars>>

\* cleanup_round() and the increment of r_idx, run by worker 0 between
\* barrier 3 and barrier 4.
CleanupRound ==
  /\ 0 \in DOMAIN pc
  /\ pc[0] = "cleanup"
  /\ var_to_active' =
       [a \in 0..(n - 1) |->
          IF \E bi1 \in 1..batch_count_cur : active[bi1].start <= a /\ a <= active[bi1].end
          THEN -1 ELSE var_to_active[a]]
  /\ active' = <<>>
  /\ batch_count_cur' = 0
  /\ r_idx' = r_idx + 1
  /\ pc' = [pc EXCEPT ![0] = "b4"]
  /\ UNCHANGED <<inputVars, mpc, naive_edges, result_edges, planVars,
                 worker_edges, sync, wr, wci, wi, wpos0, wgen, hist>>
  /\ UNCHANGED <<dsuVars, segVars, restVars>>

RECURSIVE ConcatWorkers(_)
ConcatWorkers(tid) ==
  IF tid >= num_threads THEN <<>> ELSE worker_edges[tid] \o ConcatWorkers(tid + 1)

\* The calling thread: join the pool, merge the per-thread edge buffers and
\* sort the result if asked to.
JoinAndMerge ==
  /\ mpc = "join"
  /\ \A tid \in Workers : pc[tid] = "exit"
  /\ \E sorted \in BOOLEAN :
       result_edges' = IF sorted THEN SortEdges(ConcatWorkers(0)) ELSE ConcatWorkers(0)
  /\ worker_edges' = [tid \in Workers |-> <<>>]
  /\ mpc' = "returned"
  /\ UNCHANGED <<inputVars, naive_edges, planVars, r_idx, var_to_active, active,
                 batch_count_cur, sync, localVars, hist>>
  /\ UNCHANGED <<dsuVars, segVars, restVars>>

Worker(tid) ==
  \/ LoadRound(tid)
  \/ ArriveAndWait(tid)
  \/ PassBarrier(tid)
  \/ FillClaim(tid)
  \/ FillWrite(tid)
  \/ Accum(tid)
  \/ (tid = 0 /\ PrepareRound)
  \/ (tid = 0 /\ CleanupRound)

Next ==
  \/ BuildVigNaive
  \/ OptStart
  \/ \E tid \in DOMAIN pc : LoadRound(tid)
  \/ PrepareRound
  \/ \E tid \in DOMAIN pc : ArriveAndWait(tid)
  \/ \E tid \in DOMAIN pc : PassBarrier(tid)
  \/ \E tid \in DOMAIN pc : FillClaim(tid)
  \/ \E tid \in DOMAIN pc : FillWrite(tid)
  \/ \E tid \in DOMAIN pc : Accum(tid)
  \/ CleanupRound
  \/ JoinAndMerge

Spec == Init /\ [][Next]_vars

\* Every launched worker keeps running (the OS schedules each runnable
\* thread; std::barrier releases the waiters of a completed phase), and the
\* caller proceeds once join() returns.
\* Termination is checked with every clause size kept or none (tau at its
\* largest or 1) and with the buffer cap absent, smallest or largest.
LiveInit == Init /\ tau \in {1, MaxVars} /\ maxbuf \in {0, 1, MaxBuf}

FairSpec ==
  /\ LiveInit
  /\ [][Next]_vars
  /\ \A tid \in 0..(MaxThreads - 1) : WF_vars(tid \in DOMAIN pc /\ Worker(tid))
  /\ WF_vars(JoinAndMerge)

\* ---- builds whose counts reach the width of uint32_t
\* Formulas of WideClauses clauses of three or more literals over MaxVars
\* variables: the first variable of the clauses can collect more than U32Max
\* contributions.
WideClauses == 3

WideInit ==
  /\ n = MaxVars
  /\ clauses \in [1..WideClauses -> {c \in NormClauses(MaxVars) : Len(c) >= 3}]
  /\ tau = MaxVars
  /\ num_threads \in 1..MaxThreads
  /\ maxbuf \in 1..MaxBuf
  /\ mpc = "call_naive"
  /\ naive_edges = <<>>
  /\ result_edges = <<>>
  /\ contrib_counts = <<>>
  /\ batches = <<>>
  /\ rounds = 0
  /\ r_idx = 0
  /\ var_to_active = <<>>
  /\ active = <<>>
  /\ batch_count_cur = 0
  /\ worker_edges = <<>>
  /\ sync = [count |-> 0, gen |-> 0]
  /\ pc = <<>>
  /\ wr = <<>>
  /\ wci = <<>>
  /\ wi = <<>>
  /\ wpos0 = <<>>
  /\ wgen = <<>>
  /\ hist = NoHist
  /\ DsuIdle
  /\ SegIdle
  /\ RestIdle

SpecWide == WideInit /\ [][Next]_vars

\* ======================================================= VIG: properties
Returned == mpc = "returned"
NaiveDone == mpc # "call_naive"
AllExit == pc # <<>> /\ \A tid \in DOMAIN pc : pc[tid] = "exit"

Range(f) == {f[x] : x \in DOMAIN f}
ClauseVars(c) == {VarOf(c[k]) : k \in DOMAIN c}
EdgeKeys(es) == {<<es[k].u, es[k].v>> : k \in DOMAIN es}
\* The clauses that contribute to the pair (u, v): kept, and holding both.
ContribClauses(u, v) ==
  {ci \in 0..(Len(clauses) - 1) :
     Kept(clauses[ci + 1], tau) /\ {u, v} \subseteq ClauseVars(clauses[ci + 1])}

RECURSIVE SumPairWeights(_)
SumPairWeights(S) ==
  IF S = {} THEN 0
  ELSE LET ci == CHOOSE x \in S : TRUE
       IN (WScale \div Binom2(Len(clauses[ci + 1]))) + SumPairWeights(S \ {ci})

\* What an edge aggregates: its key, the number of contributions summed, the
\* clauses they came from and the exact sum of their pair weights.
Aggregates(es) ==
  {[u |-> es[k].u, v |-> es[k].v, n |-> es[k].n, cs |-> es[k].cs, x |-> es[k].w[1]] :
     k \in DOMAIN es}

\* C1: when the optimized build has returned, its edges have exactly the keys
\* of the naive build's edges, and under each key both builds have summed the
\* same contributions: one w_pair(s) per kept clause holding both variables.
C1_OptEqualsNaive ==
  Returned =>
    /\ EdgeKeys(result_edges) = EdgeKeys(naive_edges)
    /\ Aggregates(result_edges) = Aggregates(naive_edges)
    /\ \A e \in Aggregates(result_edges) :
         /\ e.cs = ContribClauses(e.u, e.v)
         /\ e.n = Cardinality(e.cs)
         /\ e.x = SumPairWeights(e.cs)
    /\ \A u, v \in 0..(n - 1) :
         (u < v /\ ContribClauses(u, v) # {}) => <<u, v>> \in EdgeKeys(result_edges)

\* A two-thread, two-round build has returned with an edge that aggregates
\* the contributions of two clauses.
C1_Witness ==
  /\ Returned
  /\ num_threads = 2
  /\ rounds >= 2
  /\ \E k \in DOMAIN result_edges : result_edges[k].n = 2

EdgeOk(e) == e.u < e.v /\ e.u >= 0 /\ e.v < n /\ WLess(WZero, e.w)
UniqueKeys(es) == \A j, k \in DOMAIN es : (es[j].u = es[k].u /\ es[j].v = es[k].v) => j = k
UniqueUnordered(es) ==
  \A j, k \in DOMAIN es : (es[j].u = es[k].v /\ es[j].v = es[k].u) => j = k

\* C5: every edge returned by either builder has u < v, both endpoints in
\* [0, N) and a positive weight, and no pair (u, v) occurs in two edges.
C5_EdgesCanonical ==
  /\ \A k \in DOMAIN naive_edges : EdgeOk(naive_edges[k])
  /\ UniqueKeys(naive_edges) /\ UniqueUnordered(naive_edges)
  /\ \A k \in DOMAIN result_edges : EdgeOk(result_edges[k])
  /\ UniqueKeys(result_edges) /\ UniqueUnordered(result_edges)

\* Both builds have returned three edges or more, one variable having two
\* neighbours that reach it through different clauses.
C5_Witness ==
  /\ Returned
  /\ Len(result_edges) >= 3
  /\ Len(naive_edges) >= 3
  /\ \E j, k \in DOMAIN result_edges :
       /\ result_edges[j].u = result_edges[k].u
       /\ result_edges[j].v # result_edges[k].v
       /\ result_edges[j].cs # result_edges[k].cs

RECURSIVE SumEdgeWeights(_, _)
SumEdgeWeights(es, k) == IF k > Len(es) THEN 0 ELSE es[k].w[1] + SumEdgeWeights(es, k + 1)

KeptCount == Cardinality({ci \in 1..Len(clauses) : Len(clauses[ci]) >= 2 /\ Len(clauses[ci]) <= tau})
BigCount == Cardinality({ci \in 1..Len(clauses) : Len(clauses[ci]) >= 2})

\* C6: the weights of the returned edges sum (exactly, in units of 1/WScale)
\* to the number of clauses of size 2..tau; tau = 1 gives no edge, and a tau
\* that no clause exceeds counts every clause of size >= 2.
C6_TotalMass ==
  /\ NaiveDone =>
       /\ SumEdgeWeights(naive_edges, 1) = WScale * KeptCount
       /\ (tau = 1 => naive_edges = <<>>)
       /\ (tau >= MaxVars => SumEdgeWeights(naive_edges, 1) = WScale * BigCount)
  /\ (Returned /\ n > 0) =>
       /\ SumEdgeWeights(result_edges, 1) = WScale * KeptCount
       /\ (tau = 1 => result_edges = <<>>)
       /\ (tau >= MaxVars => SumEdgeWeights(result_edges, 1) = WScale * BigCount)

\* Two clauses of different sizes were kept and one clause-size threshold
\* dropped nothing.
C6_Witness ==
  /\ Returned
  /\ tau >= MaxVars
  /\ KeptCount = 2
  /\ Len(clauses[1]) # Len(clauses[2])
  /\ Len(naive_edges) >= 3

FillPcs == {"fill", "write"}
\* The worker has arrived at the barrier that ends FILL of its current round.
PastFill(tid) == pc[tid] \in {"w2", "accum", "b3", "w3", "cleanup", "b4", "w4"}

\* C7: during FILL no buffer slot is written twice, no write lands outside
\* the segment of the variable whose cursor was advanced (nor outside the
\* buffer), and once every worker has arrived at the barrier that ends FILL
\* every write cursor stands at offset + count, every slot written once.
C7_FillDisjoint ==
  /\ ~hist.stray
  /\ ~hist.ub
  /\ \A bi \in DOMAIN active : \A p \in DOMAIN active[bi].buffer :
       active[bi].buffer[p].nw <= 1
  /\ \A bi \in DOMAIN active : \A idx \in DOMAIN active[bi].offsets :
       active[bi].wptrs[idx] <= active[bi].offsets[idx] + active[bi].counts32[idx]
  /\ (pc # <<>> /\ \A tid \in DOMAIN pc : PastFill(tid)) =>
       \A bi \in DOMAIN active :
         /\ \A idx \in DOMAIN active[bi].offsets :
              active[bi].wptrs[idx] = active[bi].offsets[idx] + active[bi].counts32[idx]
         /\ \A p \in DOMAIN active[bi].buffer : active[bi].buffer[p].nw = 1

\* Both workers of a two-thread build have ended FILL, and one variable's
\* segment holds runs written by both of them.
C7_Witness ==
  /\ mpc = "join"
  /\ num_threads = 2
  /\ \A tid \in DOMAIN pc : pc[tid] = "w2"
  /\ \E bi \in DOMAIN active : \E idx \in DOMAIN active[bi].offsets :
       \E p, q \in active[bi].offsets[idx]..(active[bi].offsets[idx] + active[bi].counts32[idx] - 1) :
         active[bi].buffer[p].ci = 0 /\ active[bi].buffer[q].ci = 1

ReadPcs == {"fill", "write", "accum"}
InLoop(tid) == pc[tid] \notin {"load", "exit"}

\* C8: while worker 0 is in prepare_round or cleanup_round no worker is in
\* FILL or ACCUM or is loading the round index; a worker is in ACCUM only when
\* every worker has ended FILL of the same round; and the workers that are in
\* the same loop iteration hold the same round index.
C8_BookkeepingAlone ==
  /\ (0 \in DOMAIN pc /\ pc[0] \in {"prepare", "cleanup"}) =>
       \A tid \in DOMAIN pc \ {0} : pc[tid] \notin ReadPcs
  /\ (0 \in DOMAIN pc /\ pc[0] = "cleanup") =>
       \A tid \in DOMAIN pc \ {0} : pc[tid] \in {"w3", "b4", "w4"}
  /\ \A t1, t2 \in DOMAIN pc :
       pc[t1] = "accum" =>
         /\ pc[t2] \in {"w2", "accum", "b3", "w3"}
         /\ hist.iter[t2] = hist.iter[t1]
  /\ \A t1, t2 \in DOMAIN pc :
       (InLoop(t1) /\ InLoop(t2) /\ hist.iter[t1] = hist.iter[t2]) => wr[t1] = wr[t2]
  /\ \A t1 \in DOMAIN pc : InLoop(t1) => wr[t1] = hist.iter[t1] - 1

\* Worker 0 is in cleanup_round of the second round of a two-thread build
\* while the other worker waits at the last barrier of the round.
C8_Witness ==
  /\ mpc = "join"
  /\ num_threads = 2
  /\ pc[0] = "cleanup"
  /\ wr[0] = 1
  /\ pc[1] = "w4"

\* ceil(a / b) for b > 0
CeilDiv(a, b) == CHOOSE k \in 0..a : k * b >= a /\ (k = 0 \/ (k - 1) * b < a)

\* C9 (state part): when all workers have left the loop they have all made
\* the same number of barrier arrivals, four per round, and the number of
\* rounds they ran is ceil(number of batches / T).
C9_RoundsAtExit ==
  AllExit =>
    /\ \A tid \in DOMAIN pc :
         /\ hist.iter[tid] = CeilDiv(Len(batches), num_threads)
         /\ hist.arrivals[tid] = 4 * hist.iter[tid]
    /\ r_idx = CeilDiv(Len(batches), num_threads)
    /\ sync.count = 0

\* C9: a launched build always ends: every worker leaves its loop (so none
\* waits at the barrier forever) and the caller returns, after exactly
\* ceil(number of batches / T) rounds with equally many barrier arrivals.
C9_Terminates ==
  /\ (mpc = "join") ~> (AllExit /\ mpc = "returned")
  /\ \A tid \in 0..(MaxThreads - 1) :
       (tid \in DOMAIN pc /\ pc[tid] \in WaitPcs) ~> (tid \in DOMAIN pc /\ pc[tid] \notin WaitPcs)
  /\ []C9_RoundsAtExit

\* A two-thread build has ended after two rounds.
C9_Witness ==
  /\ AllExit
  /\ mpc = "returned"
  /\ num_threads = 2
  /\ \A tid \in DOMAIN pc : hist.iter[tid] = 2 /\ hist.arrivals[tid] = 8

\* C10: no variable's segment is reduced twice and no (clause, position) run
\* is written twice; when the workers have left the loop every variable was
\* reduced once and every run of a kept clause was written once, by the owner
\* of the clause's index, in the round in which its variable was reduced.
C10_ExactlyOnce ==
  /\ \A a \in DOMAIN hist.acc : Len(hist.acc[a]) <= 1
  /\ \A x \in DOMAIN hist.fill : Len(hist.fill[x]) <= 1
  /\ AllExit =>
       /\ DOMAIN hist.acc = 0..(n - 1)
       /\ \A a \in DOMAIN hist.acc : Len(hist.acc[a]) = 1
       /\ \A x \in DOMAIN hist.fill :
            /\ Len(hist.fill[x]) = 1
            /\ LET f == hist.fill[x][1]
                   a == VarOf(clauses[x[1] + 1][x[2] + 1])
               IN /\ (Len(clauses) * f.tid) \div num_threads <= x[1]
                  /\ x[1] < (Len(clauses) * (f.tid + 1)) \div num_threads
                  /\ f.r = hist.acc[a][1].r

\* A two-thread build has ended in which a run was written in the second
\* round and another in the first.
C10_Witness ==
  /\ AllExit
  /\ num_threads = 2
  /\ \E x, y \in DOMAIN hist.fill :
       /\ Len(hist.fill[x]) = 1 /\ hist.fill[x][1].r = 1
       /\ Len(hist.fill[y]) = 1 /\ hist.fill[y][1].r = 0

\* ------------------------------------------------ the argument checks
\* build_vig_optimized has been entered and is past its first statements.
OptEntered == mpc \notin {"call_naive", "call_opt"}
BadArguments == maxbuf = 0 \/ num_threads = 0
NoWorkDone == contrib_counts = <<>> /\ batches = <<>> /\ pc = <<>> /\ result_edges = <<>>

\* C23: for every CNF, also one with zero variables, build_vig_optimized
\* called with max_buffer_contributions = 0 or num_threads = 0 fails with an
\* invalid-argument error before any counting or batching, and returns no VIG.
C23_InvalidArgumentFirst ==
  (OptEntered /\ BadArguments) => (mpc = "invalid_argument" /\ NoWorkDone)

\* The same for the formulas that have a variable.
InvalidArgumentWithVariables ==
  (OptEntered /\ BadArguments /\ n > 0) => (mpc = "invalid_argument" /\ NoWorkDone)

\* The optimized build has been called on a formula without variables with
\* max_buffer_contributions = 0 and a positive thread count, and is over.
C23_Witness ==
  /\ OptEntered
  /\ n = 0
  /\ maxbuf = 0
  /\ num_threads > 0
  /\ mpc \in {"returned", "invalid_argument"}

\* ------------------------------------------------ the overflow guard
\* Some variable's contribution count exceeds the largest uint32_t.
Overflowing == \E a \in DOMAIN contrib_counts : contrib_counts[a] > U32Max
\* The build is over: the call has returned, thrown or ended the process.
BuildOver == mpc \in {"returned", "invalid_argument", "overflow_error", "terminated"}

\* C24: when some variable's contribution count exceeds 2^32 - 1, the build
\* ends by reporting an overflow error to its caller: the error of the round
\* preparation reaches the calling thread as a failure of the build, all
\* workers stop and no partial VIG is returned.
C24_OverflowReported ==
  (Overflowing /\ BuildOver) =>
    /\ mpc = "overflow_error"
    /\ \A tid \in DOMAIN pc : pc[tid] \in {"exit", "dead"}
    /\ result_edges = <<>>

\* What does hold: a build with such a count never returns a VIG, and once
\* it is over no worker runs.
OverflowNeverReturns ==
  Overflowing =>
    /\ mpc \in {"join", "terminated"}
    /\ result_edges = <<>>
    /\ mpc = "terminated" => \A tid \in DOMAIN pc : pc[tid] = "dead"

\* Without a count above the limit the build is not cut short.
NoOverflowNoAbort == ~Overflowing => mpc # "terminated"

\* The prefix offsets and the buffer ends of the prepared batches fit the
\* width: the narrowing casts of prepare_round keep their values.
OffsetsFit ==
  \A bi1 \in DOMAIN active : \A idx \in DOMAIN active[bi1].offsets :
    active[bi1].offsets[idx] + active[bi1].counts32[idx] <= U32Max

\* A two-thread build is over whose first variable collected more than
\* U32Max contributions.
C24_Witness ==
  /\ BuildOver
  /\ num_threads = 2
  /\ contrib_counts # <<>>
  /\ contrib_counts[0] > U32Max
  /\ hist.iter[0] = 1

\* ------------------------------------------------ the two builds' weights
\* C25: for every CNF and every edge key (u, v) the weight of the optimized
\* build differs from the weight of the naive build by at most 1e-12 (one
\* unit of the rounding-error component of a weight).
C25_WeightsWithinTolerance ==
  Returned =>
    \A i \in DOMAIN result_edges, j \in DOMAIN naive_edges :
      (result_edges[i].u = naive_edges[j].u /\ result_edges[i].v = naive_edges[j].v)
        => /\ result_edges[i].w[1] = naive_edges[j].w[1]
           /\ Abs(result_edges[i].w[2] - naive_edges[j].w[2]) <= 1

\* The same when every kept clause has two literals: 2/(2*1) = 1.0 is a float.
PairClauseWeightsEqual ==
  (Returned /\ \A k \in DOMAIN clauses : Kept(clauses[k], tau) => Len(clauses[k]) = 2)
    => \A i \in DOMAIN result_edges, j \in DOMAIN naive_edges :
         (result_edges[i].u = naive_edges[j].u /\ result_edges[i].v = naive_edges[j].v)
           => result_edges[i].w = naive_edges[j].w

\* Both builds have returned an edge that sums the pair weights of two kept
\* clauses, one of them of three literals.
C25_Witness ==
  /\ Returned
  /\ \E i \in DOMAIN result_edges, j \in DOMAIN naive_edges :
       /\ result_edges[i].u = naive_edges[j].u
       /\ result_edges[i].v = naive_edges[j].v
       /\ result_edges[i].n = 2
       /\ \E k \in result_edges[i].cs : Len(clauses[k + 1]) = 3

\* ------------------------------------------------ the plan and the batches
\* Phases 1 and 2 of build_vig_optimized read only its arguments; they are
\* run here over thread counts and buffer budgets wide enough for
\* max_buffer_contributions / max(1, t - 1) to be a real division.
PlanThreads == 4
PlanBuf == 8

PlanInit ==
  /\ n \in 0..MaxVars
  /\ clauses \in ClauseLists(n)
  /\ tau \in 1..MaxVars
  /\ num_threads \in 0..PlanThreads
  /\ maxbuf \in 0..PlanBuf
  /\ mpc = "call_opt"
  /\ naive_edges = <<>>
  /\ result_edges = <<>>
  /\ contrib_counts = <<>>
  /\ batches = <<>>
  /\ rounds = 0
  /\ r_idx = 0
  /\ var_to_active = <<>>
  /\ active = <<>>
  /\ batch_count_cur = 0
  /\ worker_edges = <<>>
  /\ sync = [count |-> 0, gen |-> 0]
  /\ pc = <<>>
  /\ wr = <<>>
  /\ wci = <<>>
  /\ wi = <<>>
  /\ wpos0 = <<>>
  /\ wgen = <<>>
  /\ hist = NoHist
  /\ DsuIdle
  /\ SegIdle
  /\ RestIdle

SpecPlan == PlanInit /\ [][OptStart]_vars

\* The pool is about to be launched: phases 1 and 2 are done.
Planned == mpc = "join"

BatchContrib(b) == SumRange(contrib_counts, b.start, b.end)

\* max_buffer_contributions / max(1, T - 1), raised to the largest contrib[a]
StatedCapacity ==
  Max(maxbuf \div Max(1, num_threads - 1), MaxRange(contrib_counts, 0, n - 1))

\* C11: the batches are contiguous variable ranges, pairwise disjoint, that
\* cover [0, N) in order, and the contributions of each batch sum to at most
\* the per-thread buffer the builder works with, which is in turn at most
\* max_buffer_contributions / max(1, T - 1) raised to the largest contrib[a]
\* wherever a batch holds a contribution.
C11_BatchesPartition ==
  Planned =>
    /\ Len(batches) >= 1
    /\ batches[1].start = 0
    /\ batches[Len(batches)].end = n - 1
    /\ \A i \in 1..Len(batches) : batches[i].start <= batches[i].end
    /\ \A i \in 1..(Len(batches) - 1) : batches[i + 1].start = batches[i].end + 1
    /\ \A i \in 1..Len(batches) :
         /\ BatchContrib(batches[i]) <= PerThreadBuffer(contrib_counts, n, num_threads, maxbuf)
         /\ BatchContrib(batches[i]) <= StatedCapacity

\* Three threads share a budget that the division halves and that decides
\* the capacity; the plan has two or more batches, one of them with several
\* contributing variables.
C11_Witness ==
  /\ Planned
  /\ num_threads = 3
  /\ Len(batches) >= 2
  /\ \E i \in 1..Len(batches) :
       \E a, b \in batches[i].start..batches[i].end :
          a < b /\ contrib_counts[a] > 0 /\ contrib_counts[b] > 0
  /\ PerThreadBuffer(contrib_counts, n, num_threads, maxbuf) = maxbuf \div 2

\* =========================================================== DisjointSets
MaxElems == 5

\* DisjointSets::find_no_compress, and the first loop of find: follow the
\* parents up to the root.
RECURSIVE FindNoCompress(_, _)
FindNoCompress(p, x) ==
  IF x < Len(p) /\ p[x + 1] # x THEN FindNoCompress(p, p[x + 1]) ELSE x

\* (variant: only x itself is re-parented)
CompressFirst(p, x, root) ==
  IF x < Len(p) /\ p[x + 1] # x THEN [p EXCEPT ![x + 1] = root] ELSE p

\* The second loop of find: every element on the path from x is re-parented
\* to the root.  Returns the new parent vector.
RECURSIVE Compress(_, _, _)
Compress(p, x, root) ==
  IF x < Len(p) /\ p[x + 1] # x
  THEN Compress([p EXCEPT ![x + 1] = root], p[x + 1], root)
  ELSE p

\* DisjointSets::find: [root, parent] after the call.
Find(p, x) ==
  LET root == FindNoCompress(p, x)
  IN [root |-> root, parent |-> Compress(p, x, root)]

\* (variant: the component count is not decremented)
DecrementNone(c) == c

\* --comp_count_ (the count is at least 1 whenever two distinct roots exist)
Decrement(c) == c - 1

\* (variant: the rank of the new root is left as it was)
IncRankNone(r) == r

\* ++rank_[ra] on an unsigned char
IncRank(r) == (r + 1) % 256

\* DisjointSets::unite: [ret, parent, rank, count] after the call.
Unite(p, rk, cnt, a, b) ==
  LET fa == Find(p, a)
      fb == Find(fa.parent, b)
      ra == fa.root
      rb == fb.root
      p2 == fb.parent
  IN IF ra = rb THEN [ret |-> ra, parent |-> p2, rank |-> rk, count |-> cnt]
     ELSE IF rk[ra + 1] < rk[rb + 1]
     THEN [ret |-> rb, parent |-> [p2 EXCEPT ![ra + 1] = rb], rank |-> rk,
           count |-> Decrement(cnt)]
     ELSE IF rk[ra + 1] > rk[rb + 1]
     THEN [ret |-> ra, parent |-> [p2 EXCEPT ![rb + 1] = ra], rank |-> rk,
           count |-> Decrement(cnt)]
     ELSE [ret |-> ra, parent |-> [p2 EXCEPT ![rb + 1] = ra],
           rank |-> [rk EXCEPT ![ra + 1] = IncRank(@)], count |-> Decrement(cnt)]

\* DisjointSets::reset(nn): nn singleton sets.
DsuReset(nn) ==
  /\ parent_' = [i \in 1..nn |-> i - 1]
  /\ rank_' = [i \in 1..nn |-> 0]
  /\ comp_count_' = nn
  /\ ret' = 0
  /\ part' = {{x} : x \in 0..(nn - 1)}
  /\ UNCHANGED <<vigVars, segVars, restVars>>

DsuFind(x) ==
  /\ x \in 0..(Len(parent_) - 1)
  /\ parent_' = Find(parent_, x).parent
  /\ ret' = Find(parent_, x).root
  /\ UNCHANGED <<rank_, comp_count_, part, vigVars, segVars, restVars>>

DsuFindNoCompress(x) ==
  /\ x \in 0..(Len(parent_) - 1)
  /\ ret' = FindNoCompress(parent_, x)
  /\ UNCHANGED <<parent_, rank_, comp_count_, part, vigVars, segVars, restVars>>

\* The class of x in the partition the callers asked for.
ClassOf(P, x) == CHOOSE S \in P : x \in S

DsuUnite(a, b) ==
  /\ a \in 0..(Len(parent_) - 1)
  /\ b \in 0..(Len(parent_) - 1)
  /\ LET u == Unite(parent_, rank_, comp_count_, a, b)
     IN /\ parent_' = u.parent
        /\ rank_' = u.rank
        /\ comp_count_' = u.count
        /\ ret' = u.ret
  /\ part' = (part \ {ClassOf(part, a), ClassOf(part, b)})
               \cup {ClassOf(part, a) \cup ClassOf(part, b)}
  /\ UNCHANGED <<vigVars, segVars, restVars>>

\* DisjointSets(n = 0): the constructor calls reset(0).
DsuInit == VigIdle /\ SegIdle /\ DsuIdle /\ RestIdle

DsuNext ==
  \/ \E nn \in 0..MaxElems : DsuReset(nn)
  \/ \E x \in 0..(MaxElems - 1) : DsuFind(x)
  \/ \E x \in 0..(MaxElems - 1) : DsuFindNoCompress(x)
  \/ \E a, b \in 0..(MaxElems - 1) : DsuUnite(a, b)

SpecDsu == DsuInit /\ [][DsuNext]_vars

\* ----------------------------------------------------- DisjointSets: properties
Roots(p) == {x \in 0..(Len(p) - 1) : FindNoCompress(p, x) = x}

\* C3: after reset(N) and any calls of find, find_no_compress and unite with
\* indices in [0, N), components() is the number of elements that are their
\* own representative, which is the number of classes of the partition the
\* unite calls ask for; two elements have the same representative exactly
\* when they are in the same class.
C3_ComponentsCount ==
  /\ comp_count_ = Cardinality(Roots(parent_))
  /\ comp_count_ = Cardinality(part)
  /\ \A x, y \in 0..(Len(parent_) - 1) :
       (FindNoCompress(parent_, x) = FindNoCompress(parent_, y))
         <=> (ClassOf(part, x) = ClassOf(part, y))

\* Four of five elements have been united into one class whose tree has a
\* path of length 2, and a later call returned a representative.
C3_Witness ==
  /\ Len(parent_) = 5
  /\ comp_count_ = 2
  /\ \E S \in part : Cardinality(S) = 4
  /\ \E x \in 0..4 :
       /\ parent_[x + 1] # x
       /\ parent_[parent_[x + 1] + 1] # parent_[x + 1]
       /\ ret = FindNoCompress(parent_, x)

\* Whether x and y have the same representative under the parent vector p.
SameSet(p, x, y) == FindNoCompress(p, x) = FindNoCompress(p, y)

\* What unite(a, b) has to leave behind, read off the state before the call
\* (ra, rb, the ranks) and the state after it.
UniteContract(a, b) ==
  LET ra == FindNoCompress(parent_, a)
      rb == FindNoCompress(parent_, b)
      elems == 0..(Len(parent_) - 1)
  IN IF ra = rb
     THEN /\ ret' = ra
          /\ rank_' = rank_
          /\ comp_count_' = comp_count_
          /\ \A x, y \in elems : SameSet(parent_', x, y) <=> SameSet(parent_, x, y)
     ELSE /\ comp_count_' = comp_count_ - 1
          /\ FindNoCompress(parent_', a) = ret'
          /\ FindNoCompress(parent_', b) = ret'
          /\ \A x, y \in elems :
               SameSet(parent_', x, y) <=>
                 \/ SameSet(parent_, x, y)
                 \/ {FindNoCompress(parent_, x), FindNoCompress(parent_, y)} = {ra, rb}
          /\ IF rank_[ra + 1] < rank_[rb + 1]
             THEN parent_'[ra + 1] = rb /\ parent_'[rb + 1] = rb /\ ret' = rb /\ rank_' = rank_
             ELSE IF rank_[ra + 1] > rank_[rb + 1]
             THEN parent_'[rb + 1] = ra /\ parent_'[ra + 1] = ra /\ ret' = ra /\ rank_' = rank_
             ELSE /\ parent_'[rb + 1] = ra /\ parent_'[ra + 1] = ra /\ ret' = ra
                  /\ rank_' = [rank_ EXCEPT ![ra + 1] = rank_[ra + 1] + 1]

\* C12: every call unite(a, b) with roots ra # rb attaches the root of lower
\* rank under the root of higher rank and leaves the ranks alone, or on equal
\* ranks attaches rb under ra and adds one to rank[ra]; components() drops by
\* exactly one, the two sets and no others are joined and the root of the
\* joined set is returned.  With ra = rb the partition, the ranks and
\* components() stay as they are and ra is returned.
C12_UniteContract ==
  [][\A a, b \in 0..(MaxElems - 1) : DsuUnite(a, b) => UniteContract(a, b)]_vars

\* A root of rank 1 heads a class of three and was returned by the last call:
\* a tie was broken and a singleton was then attached under the higher rank.
C12_Witness ==
  \E r \in Roots(parent_) :
    /\ rank_[r + 1] = 1
    /\ ret = r
    /\ Cardinality({x \in 0..(Len(parent_) - 1) : FindNoCompress(parent_, x) = r}) = 3
    /\ Cardinality(ClassOf(part, r)) = 3

\* ---- deep trees
\* A path of three links needs a root of rank 3, hence eight elements.  The
\* calls are reset(DeepElems), every find and find_no_compress, and unite over
\* the pairs (a, a + d) with d in {1, 2, 4} and a a multiple of 2d.
DeepElems == 8
DeepPairs ==
  {pr \in (0..(DeepElems - 1)) \X (0..(DeepElems - 1)) :
     \E d \in {1, 2, 4} : pr[2] = pr[1] + d /\ pr[1] % (2 * d) = 0}

DeepNext ==
  \/ DsuReset(DeepElems)
  \/ \E x \in 0..(DeepElems - 1) : DsuFind(x)
  \/ \E x \in 0..(DeepElems - 1) : DsuFindNoCompress(x)
  \/ \E pr \in DeepPairs : DsuUnite(pr[1], pr[2])

SpecDsuDeep == DsuInit /\ [][DeepNext]_vars

\* The elements visited from x up to its root, the root left out.
RECURSIVE PathBelowRoot(_, _)
PathBelowRoot(p, x) ==
  IF p[x + 1] = x THEN {} ELSE {x} \cup PathBelowRoot(p, p[x + 1])

\* What find(x) has to leave behind.
FindContract(x) ==
  LET root == FindNoCompress(parent_, x)
      elems == 0..(Len(parent_) - 1)
  IN /\ ret' = root
     /\ \A y \in elems :
          parent_'[y + 1] = IF y \in PathBelowRoot(parent_, x) THEN root ELSE parent_[y + 1]
     /\ rank_' = rank_
     /\ comp_count_' = comp_count_
     /\ \A y, z \in elems : SameSet(parent_', y, z) <=> SameSet(parent_, y, z)
     /\ part' = part

\* What find_no_compress(x) has to leave behind.
FindNoCompressContract(x) ==
  /\ ret' = Find(parent_, x).root
  /\ parent_' = parent_
  /\ rank_' = rank_
  /\ comp_count_' = comp_count_
  /\ part' = part

\* C13: in every state and for every x in [0, N), find_no_compress(x) changes
\* nothing and returns the root that find(x) returns; find(x) points every
\* element on the path from x to its root at the root and changes neither the
\* partition, nor a rank, nor components(), nor the parent of an element off
\* that path.
C13_FindFrame ==
  [][\A x \in 0..(DeepElems - 1) :
       /\ DsuFind(x) => FindContract(x)
       /\ DsuFindNoCompress(x) => FindNoCompressContract(x)]_vars

\* A root of rank 3 was returned and has five children, two more than the
\* unite calls gave it: find has pointed a path at it, and other elements
\* still sit two links below it.
C13_Witness ==
  /\ Len(parent_) = DeepElems
  /\ \E r \in Roots(parent_) :
       /\ rank_[r + 1] = 3
       /\ ret = r
       /\ Cardinality({x \in 0..(DeepElems - 1) : x # r /\ parent_[x + 1] = r}) = 5
       /\ \E x \in 0..(DeepElems - 1) : parent_[x + 1] # r /\ parent_[parent_[x + 1] + 1] = r

\* ======================================================= GraphSegmenterFH
MaxNodes == 4
MaxEdges == 3
MaxWeight == 2
\* the weights that are not positive: -NegWeights..0
NegWeights == 1
\* k is drawn from the halves 0, 1/2, .., MaxK2 / 2
MaxK2 == 2

\* ---- doubles, carried as exact rationals <<numerator, denominator>>
QNorm(a, b) ==
  LET g == Gcd(Abs(a), b) IN <<a \div g, b \div g>>
QInt(i) == <<i, 1>>
QAdd(x, y) == QNorm(x[1] * y[2] + y[1] * x[2], x[2] * y[2])
QSub(x, y) == QNorm(x[1] * y[2] - y[1] * x[2], x[2] * y[2])
QMul(x, y) == QNorm(x[1] * y[1], x[2] * y[2])
\* x / y for y # 0
QDiv(x, y) ==
  IF y[1] > 0 THEN QNorm(x[1] * y[2], x[2] * y[1]) ELSE QNorm(-(x[1] * y[2]), -(x[2] * y[1]))
QLess(x, y) == x[1] * y[2] < y[1] * x[2]
QLeq(x, y) == x[1] * y[2] <= y[1] * x[2]
\* (variant: the first argument is returned)
QMaxFirst(x, y) == x
QMax(x, y) == IF QLess(x, y) THEN y ELSE x
QMin(x, y) == IF QLess(y, x) THEN y ELSE x

\* ---- Config
\* The defaults of struct Config.  sizeExponent is a rational; 1.2 is 6/5.
DefaultConfig ==
  [normalize_distances |-> TRUE,
   norm_sample_edges |-> 1000,
   sizeExponent |-> <<6, 5>>,
   use_modularity_guard |-> TRUE,
   gamma |-> <<1, 1>>,
   anneal_modularity_guard |-> TRUE,
   dq_tolerance0 |-> <<1, 2000>>,
   dq_vscale |-> <<0, 1>>,
   ambiguous_policy |-> "GateMargin",
   gate_margin_ratio |-> <<1, 20>>]

\* The configurations the callers set: whole size exponents 1 and 2, the
\* guard on or off and, with the guard on, annealing and each policy; each of
\* them with and without normalize_distances.
GuardConfigs ==
  {[DefaultConfig EXCEPT !.sizeExponent = <<e, 1>>, !.use_modularity_guard = FALSE] :
     e \in {1, 2}}
  \cup
  {[DefaultConfig EXCEPT !.sizeExponent = <<e, 1>>, !.anneal_modularity_guard = an,
                         !.ambiguous_policy = pol] :
     e \in {1, 2}, an \in BOOLEAN, pol \in {"Accept", "Reject", "GateMargin"}}

Configs ==
  {[c EXCEPT !.normalize_distances = nd] : c \in GuardConfigs, nd \in BOOLEAN}

\* std::pow(size, sizeExponent) for a whole exponent
SizeTerm(size, e) == QInt(size ^ e[1])

\* gate(r) = max_dist_[r] + k_ / size_term
Gate(r) ==
  LET size_term == SizeTerm(comp_size_[r + 1], cfg_.sizeExponent)
      tau_ == QDiv(k_, IF QLess(QInt(0), size_term) THEN size_term ELSE QInt(1))
  IN QAdd(max_dist_[r + 1], tau_)

\* (variant: the distance is tested against the larger gate)
AllowMergeMax(a, b, connection_distance) ==
  LET ga == Gate(a)
      gb == Gate(b)
  IN QLeq(connection_distance, IF QLess(ga, gb) THEN gb ELSE ga)

AllowMerge(a, b, connection_distance) ==
  LET ga == Gate(a)
      gb == Gate(b)
  IN QLeq(connection_distance, IF QLess(ga, gb) THEN ga ELSE gb)

\* dq_tolerance(a, b): 0 without annealing; otherwise -tol0 * exp(-maxVol /
\* vscale), an irrational in general, carried as the interval [lo, hi] that
\* 1 - x <= exp(-x) <= 1 / (1 + x) gives for x >= 0 and that
\* 1 + y <= exp(y) <= 3 ^ ceil(y) gives for y = -x > 0.
DqTolerance(a, b) ==
  IF ~cfg_.anneal_modularity_guard THEN [lo |-> QInt(0), hi |-> QInt(0)]
  ELSE LET maxVol == QMax(comp_vol_[a + 1], comp_vol_[b + 1])
           nn == Len(comp_size_)
           vscale == IF QLess(QInt(0), cfg_.dq_vscale) THEN cfg_.dq_vscale
                     ELSE IF nn > 0
                          THEN QMax(QInt(1), QDiv(QMul(QInt(2), sum_weights_), QInt(nn)))
                          ELSE QInt(1)
           x == QDiv(maxVol, vscale)
           expHi == IF QLeq(QInt(0), x) THEN QDiv(QInt(1), QAdd(QInt(1), x))
                    ELSE QInt(3 ^ ((x[2] - x[1] - 1) \div x[2]))
           expLo == IF QLeq(QInt(0), x) THEN QMax(QInt(0), QSub(QInt(1), x))
                    ELSE QSub(QInt(1), x)
       IN [lo |-> QSub(QInt(0), QMul(cfg_.dq_tolerance0, expHi)),
           hi |-> QSub(QInt(0), QMul(cfg_.dq_tolerance0, expLo))]

\* dq_lower_bound, called with sum_weights_ > 0
DqLowerBound(a, b, ab_w) ==
  LET m == sum_weights_
  IN QSub(QDiv(ab_w, m),
          QDiv(QMul(cfg_.gamma, QMul(comp_vol_[a + 1], comp_vol_[b + 1])),
               QMul(QInt(2), QMul(m, m))))

\* e_ab_ub of dq_upper_bound
EabUb(a, b) ==
  LET va == comp_vol_[a + 1]
      vb == comp_vol_[b + 1]
      cutA_ub == QMax(QInt(0), QSub(va, QMul(QInt(2), lb_comp_internal_w_[a + 1])))
      cutB_ub == QMax(QInt(0), QSub(vb, QMul(QInt(2), lb_comp_internal_w_[b + 1])))
  IN QMin(QMin(cutA_ub, cutB_ub), QMin(va, vb))

\* dq_upper_bound, called with sum_weights_ > 0
DqUpperBound(a, b) ==
  LET va == comp_vol_[a + 1]
      vb == comp_vol_[b + 1]
      m == sum_weights_
  IN QSub(QDiv(EabUb(a, b), m),
          QDiv(QMul(cfg_.gamma, QMul(va, vb)), QMul(QInt(2), QMul(m, m))))

\* accept_by_modularity_lowerbound: the set of results that dq_min >= tol can
\* have for a tolerance inside [tol.lo, tol.hi].
AcceptByModularityLowerbound(a, b, ab_w, tol) ==
  IF ~cfg_.use_modularity_guard \/ ~QLess(QInt(0), sum_weights_) THEN {TRUE}
  ELSE LET dq_min == DqLowerBound(a, b, ab_w)
       IN {r \in BOOLEAN : IF r THEN QLeq(tol.lo, dq_min) ELSE QLess(dq_min, tol.hi)}

\* reject_by_modularity_upperbound
RejectByModularityUpperbound(a, b, tol) ==
  IF ~cfg_.use_modularity_guard \/ ~QLess(QInt(0), sum_weights_) THEN FALSE
  ELSE QLess(DqUpperBound(a, b), tol)

\* ---- inputs of run
Nodes(nn) == 0..(nn - 1)

\* Edges over nn nodes: u < v, a weight in -NegWeights..MaxWeight (0 and the
\* negative ones are the weights that are not positive).
EdgeUniverse(nn) ==
  {[u |-> pr[1], v |-> pr[2], w |-> QInt(x)] :
     pr \in {q \in Nodes(nn) \X Nodes(nn) : q[1] < q[2]}, x \in (-NegWeights)..MaxWeight}

\* The subsets of S with at most m elements
RECURSIVE SubsetsUpTo(_, _)
SubsetsUpTo(S, m) ==
  IF m = 0 THEN {{}}
  ELSE LET prev == SubsetsUpTo(S, m - 1)
       IN prev \cup {T \cup {x} : T \in prev, x \in S}

EdgeSets(nn) == SubsetsUpTo(EdgeUniverse(nn), MaxEdges)

\* edge_desc
EdgeDesc(a, b) == QLess(b.w, a.w)

\* The orders std::sort(edges, edge_desc) can leave a vector that holds the
\* edges E: every arrangement in which no edge precedes a heavier one (the
\* sort is not stable and the comparator reads the weight only).
SortedOrders(E) ==
  {sq \in [1..Cardinality(E) -> E] :
     /\ \A i, j \in 1..Cardinality(E) : i # j => sq[i] # sq[j]
     /\ \A i, j \in 1..Cardinality(E) : i < j => ~EdgeDesc(sq[j], sq[i])}

\* var_neighbors of u: run fills each node's block from its end, so the block
\* lists the edges of u in reverse vector order.
RECURSIVE VarNeighbors(_, _, _)
VarNeighbors(es, u, i) ==
  IF i = 0 THEN <<>>
  ELSE (IF es[i].v = u THEN <<[first |-> es[i].u, second |-> es[i].w]>> ELSE <<>>)
       \o (IF es[i].u = u THEN <<[first |-> es[i].v, second |-> es[i].w]>> ELSE <<>>)
       \o VarNeighbors(es, u, i - 1)

\* sum_weights_to_comp(u, c): [sum, parent] after the compressing finds.
RECURSIVE SumLoop(_, _, _, _, _)
SumLoop(p, nb, i, c, sum) ==
  IF i > Len(nb) THEN [sum |-> sum, parent |-> p]
  ELSE LET f == Find(p, nb[i].first)
       IN SumLoop(f.parent, nb, i + 1, c,
                  IF f.root = c THEN QAdd(sum, nb[i].second) ELSE sum)

SumWeightsToComp(p, es, u, c) == SumLoop(p, VarNeighbors(es, u, Len(es)), 1, c, QInt(0))

RECURSIVE SumW(_, _)
SumW(es, i) == IF i = 0 THEN QInt(0) ELSE QAdd(SumW(es, i - 1), es[i].w)

\* comp_vol_ after the volume pass over es[1..i]
RECURSIVE VolPass(_, _, _)
VolPass(vol, es, i) ==
  IF i = 0 THEN vol
  ELSE LET v1 == VolPass(vol, es, i - 1)
           v2 == [v1 EXCEPT ![es[i].u + 1] = QAdd(@, es[i].w)]
       IN [v2 EXCEPT ![es[i].v + 1] = QAdd(@, es[i].w)]

\* ---- the caller
\* set_config
SetConfig(c) ==
  /\ spc = "idle"
  /\ cfg_' = c
  /\ UNCHANGED <<sum_weights_, comp_size_, max_dist_, lb_comp_internal_w_, comp_vol_, k_,
                 d_scale_, intercomp_candidates_, mod_guard_ub_rejects_,
                 mod_guard_ambiguous_, mod_guard_lb_accepts_>>
  /\ UNCHANGED <<spc, edges, ei, out, input, mlog, gate_passed, first_run, vigVars, dsuVars, restVars>>

\* run(edges) up to its main loop: the sort, the neighbour lists, the total
\* weight and the volumes.  With no node, var_edge_counts.back() reads an
\* empty vector: the call may go on with any total or end the program.
RunEnter(E, es) ==
  /\ input' = E
  /\ edges' = es
  /\ IF cfg_.use_modularity_guard
     THEN /\ sum_weights_' = SumW(es, Len(es))
          /\ comp_vol_' = VolPass(comp_vol_, es, Len(es))
     ELSE /\ sum_weights_' = QInt(0)
          /\ UNCHANGED comp_vol_
  /\ IF Len(parent_) = 0
     THEN spc' \in {"done", "crashed"}
     ELSE spc' = IF Len(es) = 0 THEN "done" ELSE "loop"
  /\ intercomp_candidates_' = <<>>
  /\ ei' = 0
  /\ UNCHANGED <<comp_size_, max_dist_, lb_comp_internal_w_, k_, cfg_, d_scale_,
                 mod_guard_ub_rejects_, mod_guard_ambiguous_, mod_guard_lb_accepts_>>
  /\ UNCHANGED <<out, mlog, gate_passed, first_run, vigVars, dsuVars, restVars>>

\* The caller passes a vector that holds the edges E in any order.
RunStart ==
  /\ spc = "idle"
  /\ cfg_.sizeExponent[2] = 1
  /\ \E E \in EdgeSets(Len(parent_)) : \E es \in SortedOrders(E) : RunEnter(E, es)

\* static_cast<float>(x): exact on the values it is given here, sums of whole
\* weights far below 2^24.
Float32(x) == x

\* What one iteration of the main loop of run decides for edge e, with the
\* parent vector as the finds leave it and the change of each guard counter:
\*   skip   - the weight is not positive;
\*   intra  - both endpoints already have the same representative;
\*   reject - the edge is stored as an inter-component candidate;
\*   merge  - the components are united.
\* accept_by_modularity_lowerbound may have either result where the
\* tolerance interval does not settle it.
\* (variant: every decision counts as a lower-bound accept)
DecisionCounted(kind, p, a, b, d, lba, ubr, amb) ==
  [kind |-> kind, parent |-> p, a |-> a, b |-> b, d |-> d,
   lb_accepts |-> 1, ub_rejects |-> ubr, ambiguous |-> amb]

\* (variant: the margin test lets every edge through)
MarginAlways(a, b, connection_distance) == TRUE

\* margin_ok of the GateMargin policy: g > 0 and g - d >= gate_margin_ratio * g
\* for g = min(gate(a), gate(b))
MarginOk(a, b, connection_distance) ==
  LET g == QMin(Gate(a), Gate(b))
  IN /\ QLess(QInt(0), g)
     /\ QLeq(QMul(cfg_.gate_margin_ratio, g), QSub(g, connection_distance))

\* (variant: a rejected edge is skipped and not stored)
DecisionNotStored(kind, p, a, b, d, lba, ubr, amb) ==
  [kind |-> IF kind = "reject" THEN "skip" ELSE kind, parent |-> p, a |-> a, b |-> b,
   d |-> d, lb_accepts |-> lba, ub_rejects |-> ubr, ambiguous |-> amb]

Decision(kind, p, a, b, d, lba, ubr, amb) ==
  [kind |-> kind, parent |-> p, a |-> a, b |-> b, d |-> d,
   lb_accepts |-> lba, ub_rejects |-> ubr, ambiguous |-> amb]

Decisions(e) ==
  IF ~QLess(QInt(0), e.w) THEN {Decision("skip", parent_, 0, 0, QInt(0), 0, 0, 0)}
  ELSE
  LET fa == Find(parent_, e.u)
      fb == Find(fa.parent, e.v)
      a == fa.root
      b == fb.root
      p2 == fb.parent
      connection_distance == QDiv(QDiv(QInt(1), e.w), d_scale_)
  IN IF a = b THEN {Decision("intra", p2, a, b, connection_distance, 0, 0, 0)}
     ELSE IF ~AllowMerge(a, b, connection_distance)
     THEN {Decision("reject", p2, a, b, connection_distance, 0, 0, 0)}
     ELSE IF ~cfg_.use_modularity_guard
     THEN {Decision("merge", p2, a, b, connection_distance, 0, 0, 0)}
     ELSE
     LET tolerance == DqTolerance(a, b)
         s1 == SumWeightsToComp(p2, edges, e.u, b)
         s2 == SumWeightsToComp(s1.parent, edges, e.v, a)
         p3 == s2.parent
         w_ab_lb == Float32(QSub(Float32(QAdd(s1.sum, s2.sum)), e.w))
         margin_ok == MarginOk(a, b, connection_distance)
     IN {IF acc THEN Decision("merge", p3, a, b, connection_distance, 1, 0, 0)
         ELSE IF RejectByModularityUpperbound(a, b, QInt(0))
         THEN Decision("reject", p3, a, b, connection_distance, 0, 1, 0)
         ELSE IF cfg_.ambiguous_policy = "Accept"
         THEN Decision("merge", p3, a, b, connection_distance, 0, 0, 1)
         ELSE IF cfg_.ambiguous_policy = "Reject"
         THEN Decision("reject", p3, a, b, connection_distance, 0, 0, 1)
         ELSE IF ~margin_ok
         THEN Decision("reject", p3, a, b, connection_distance, 0, 0, 1)
         ELSE Decision("merge", p3, a, b, connection_distance, 0, 0, 1) :
           acc \in AcceptByModularityLowerbound(a, b, w_ab_lb, tolerance)}

\* History record of a merge: the edge, the representatives and what the gate
\* reads, all taken before the unite.
MergeRecord(e, dec) ==
  [u |-> e.u, v |-> e.v, w |-> e.w, a |-> dec.a, b |-> dec.b, d |-> dec.d,
   size_a |-> comp_size_[dec.a + 1], size_b |-> comp_size_[dec.b + 1],
   max_a |-> max_dist_[dec.a + 1], max_b |-> max_dist_[dec.b + 1],
   k |-> k_, d_scale |-> d_scale_, exponent |-> cfg_.sizeExponent[1]]

\* One iteration of the main loop of run.
RunStep ==
  /\ spc = "loop"
  /\ LET e == edges[ei + 1]
     IN \E dec \in Decisions(e) :
          /\ mod_guard_lb_accepts_' = mod_guard_lb_accepts_ + dec.lb_accepts
          /\ mod_guard_ub_rejects_' = mod_guard_ub_rejects_ + dec.ub_rejects
          /\ mod_guard_ambiguous_' = mod_guard_ambiguous_ + dec.ambiguous
          /\ intercomp_candidates_' =
               IF dec.kind = "reject" THEN Append(intercomp_candidates_, e)
               ELSE intercomp_candidates_
          /\ IF dec.kind = "merge"
             THEN LET un == Unite(dec.parent, rank_, comp_count_, dec.a, dec.b)
                      r == un.ret
                      a == dec.a
                      b == dec.b
                      prev_max == QMax(max_dist_[a + 1], max_dist_[b + 1])
                  IN /\ parent_' = un.parent
                     /\ rank_' = un.rank
                     /\ comp_count_' = un.count
                     /\ comp_size_' = [comp_size_ EXCEPT ![r + 1] =
                                         comp_size_[a + 1] + comp_size_[b + 1]]
                     /\ IF cfg_.use_modularity_guard
                        THEN /\ comp_vol_' = [comp_vol_ EXCEPT ![r + 1] =
                                                QAdd(comp_vol_[a + 1], comp_vol_[b + 1])]
                             /\ lb_comp_internal_w_' =
                                  [lb_comp_internal_w_ EXCEPT ![r + 1] =
                                     QAdd(QAdd(lb_comp_internal_w_[a + 1],
                                               lb_comp_internal_w_[b + 1]), e.w)]
                        ELSE UNCHANGED <<comp_vol_, lb_comp_internal_w_>>
                     /\ max_dist_' = [max_dist_ EXCEPT ![r + 1] = QMax(prev_max, dec.d)]
                     /\ mlog' = Append(mlog, MergeRecord(e, dec))
             ELSE /\ parent_' = dec.parent
                  /\ lb_comp_internal_w_' =
                       IF dec.kind = "intra" /\ cfg_.use_modularity_guard
                       THEN [lb_comp_internal_w_ EXCEPT ![dec.a + 1] = QAdd(@, e.w)]
                       ELSE lb_comp_internal_w_
                  /\ UNCHANGED <<rank_, comp_count_, comp_size_, comp_vol_, max_dist_, mlog>>
  /\ ei' = ei + 1
  /\ spc' = IF ei + 1 = Len(edges) THEN "done" ELSE "loop"
  /\ gate_passed' =
       LET e == edges[ei + 1]
           a == FindNoCompress(parent_, e.u)
           b == FindNoCompress(parent_, e.v)
       IN IF /\ QLess(QInt(0), e.w)
             /\ a # b
             /\ AllowMerge(a, b, QDiv(QDiv(QInt(1), e.w), d_scale_))
          THEN gate_passed + 1 ELSE gate_passed
  /\ UNCHANGED <<sum_weights_, k_, cfg_, d_scale_, edges, out, input, first_run, ret, part,
                 vigVars, restVars>>

\* a * b in unsigned arithmetic
UMul(a, b) == (a * b) % UMod

\* target_pairs = num_components < 2 ? 0 : (num_components * (num_components - 1)) / 2
TargetPairs(num_components) ==
  IF num_components < 2 THEN 0 ELSE UMul(num_components, num_components - 1) \div 2

\* The loop of strongest_inter_component_edges over the candidates from
\* position i on: best maps a pair of representatives to its first edge.
RECURSIVE BestLoop(_, _, _, _, _)
BestLoop(p, cands, i, best, target_pairs) ==
  IF i > Len(cands) THEN best
  ELSE LET e == cands[i]
           a == FindNoCompress(p, e.u)
           b == FindNoCompress(p, e.v)
           aa == Min(a, b)
           bb == Max(a, b)
           key == <<aa, bb>>
       IN IF a = b THEN BestLoop(p, cands, i + 1, best, target_pairs)
          ELSE IF key \in DOMAIN best THEN BestLoop(p, cands, i + 1, best, target_pairs)
          ELSE LET best2 == best @@ (key :> [u |-> aa, v |-> bb, w |-> e.w])
               IN IF Cardinality(DOMAIN best2) = target_pairs THEN best2
                  ELSE BestLoop(p, cands, i + 1, best2, target_pairs)

StrongestInterComponentEdges ==
  LET best == BestLoop(parent_, intercomp_candidates_, 1, <<>>, TargetPairs(comp_count_))
  IN {best[key] : key \in DOMAIN best}

\* strongest_inter_component_edges() called after run() has returned.
Strongest ==
  /\ spc = "done"
  /\ out' = StrongestInterComponentEdges
  /\ spc' = "reported"
  /\ UNCHANGED <<segMembers, edges, ei, input, mlog, gate_passed, first_run, vigVars, dsuVars, restVars>>

\* GraphSegmenterFH(nn, k): the constructor calls reset(nn, k) with the
\* default configuration.
SegInit ==
  /\ VigIdle
  /\ RestIdle
  /\ \E nn \in 0..MaxNodes, k2 \in 0..MaxK2 :
       /\ parent_ = [i \in 1..nn |-> i - 1]
       /\ rank_ = [i \in 1..nn |-> 0]
       /\ comp_count_ = nn
       /\ comp_size_ = [i \in 1..nn |-> 1]
       /\ comp_vol_ = [i \in 1..nn |-> QInt(0)]
       /\ lb_comp_internal_w_ = [i \in 1..nn |-> QInt(0)]
       /\ max_dist_ = [i \in 1..nn |-> QInt(0)]
       /\ k_ = QNorm(k2, 2)
  /\ ret = 0
  /\ part = {}
  /\ mod_guard_lb_accepts_ = 0
  /\ mod_guard_ub_rejects_ = 0
  /\ mod_guard_ambiguous_ = 0
  /\ cfg_ = DefaultConfig
  /\ sum_weights_ = QInt(0)
  /\ d_scale_ = QInt(1)
  /\ intercomp_candidates_ = <<>>
  /\ spc = "idle"
  /\ edges = <<>>
  /\ ei = 0
  /\ out = {}
  /\ input = {}
  /\ mlog = <<>>
  /\ gate_passed = 0
  /\ first_run = <<>>

SegNext ==
  \/ \E c \in Configs : SetConfig(c)
  \/ RunStart
  \/ RunStep
  \/ Strongest

SpecSeg == SegInit /\ [][SegNext]_vars

\* ---- a second run on the same object
\* What a run leaves behind: the final partition, the candidate list, the
\* guard counters, m and the per-component arrays.
RunResults ==
  [classes |-> {{y \in 0..(Len(parent_) - 1) : SameSet(parent_, x, y)} :
                  x \in 0..(Len(parent_) - 1)},
   candidates |-> intercomp_candidates_,
   lb_accepts |-> mod_guard_lb_accepts_,
   ub_rejects |-> mod_guard_ub_rejects_,
   ambiguous |-> mod_guard_ambiguous_,
   m |-> sum_weights_,
   vol |-> comp_vol_,
   internal_lb |-> lb_comp_internal_w_,
   size |-> comp_size_,
   max_dist |-> max_dist_]

\* reset(nn, k), called after a run() has returned; the results of that run,
\* the edges it was given and the vector as it left it are kept in first_run.
Reset(nn, k) ==
  /\ spc = "done"
  /\ first_run = <<>>
  /\ first_run' = [results |-> RunResults, input |-> input, left |-> edges]
  /\ parent_' = [i \in 1..nn |-> i - 1]
  /\ rank_' = [i \in 1..nn |-> 0]
  /\ comp_count_' = nn
  /\ mod_guard_lb_accepts_' = 0
  /\ mod_guard_ub_rejects_' = 0
  /\ mod_guard_ambiguous_' = 0
  /\ comp_size_' = [i \in 1..nn |-> 1]
  /\ IF cfg_.use_modularity_guard
     THEN /\ comp_vol_' = [i \in 1..nn |-> QInt(0)]
          /\ lb_comp_internal_w_' = [i \in 1..nn |-> QInt(0)]
     ELSE UNCHANGED <<comp_vol_, lb_comp_internal_w_>>
  /\ max_dist_' = [i \in 1..nn |-> QInt(0)]
  /\ k_' = k
  /\ d_scale_' = QInt(1)
  /\ intercomp_candidates_' = <<>>
  /\ mlog' = <<>>
  /\ gate_passed' = 0
  /\ spc' = "again"
  /\ UNCHANGED <<sum_weights_, cfg_, edges, ei, out, input, ret, part, vigVars, restVars>>

\* The edges of positive weight of a vector, in the vector's order.
PositiveEdges(es) == SelectSeq(es, LAMBDA e : QLess(QInt(0), e.w))

\* run() on the vector of the first run with the edges of weight <= 0 taken
\* out and the others left in the order the first run met them.
RunAgain ==
  /\ spc = "again"
  /\ LET es == PositiveEdges(edges)
     IN RunEnter({es[i] : i \in 1..Len(es)}, es)

RerunNext ==
  \/ \E c \in Configs : SetConfig(c)
  \/ RunStart
  \/ RunStep
  \/ Strongest
  \/ Reset(Len(comp_size_), k_)
  \/ RunAgain

SpecRerun == SegInit /\ [][RerunNext]_vars

\* run() once more on the caller's vector as the first run left it: the
\* vector goes through std::sort again, which may leave edges of equal
\* weight in another order than it found them.
RunSame ==
  /\ spc = "again"
  /\ \E es \in SortedOrders({edges[i] : i \in 1..Len(edges)}) : RunEnter(input, es)

SameNext ==
  \/ \E c \in Configs : SetConfig(c)
  \/ RunStart
  \/ RunStep
  \/ Strongest
  \/ Reset(Len(comp_size_), k_)
  \/ RunSame

SpecSame == SegInit /\ [][SameNext]_vars

\* ------------------------------------------------- GraphSegmenterFH: properties
\* C2: every edge that caused a merge satisfied, on the state just before the
\* merge, d <= min(gate(a), gate(b)), with a and b the representatives of its
\* endpoints, d = (1 / w) / d_scale and gate(r) = max_dist[r] + k / size[r]^exponent.
C2_MergeWithinGates ==
  \A i \in 1..Len(mlog) :
    LET m == mlog[i]
        d == QDiv(QDiv(QInt(1), m.w), m.d_scale)
        gate_a == QAdd(m.max_a, QDiv(m.k, QInt(m.size_a ^ m.exponent)))
        gate_b == QAdd(m.max_b, QDiv(m.k, QInt(m.size_b ^ m.exponent)))
    IN /\ m.d = d
       /\ QLeq(d, gate_a)
       /\ QLeq(d, gate_b)

\* A run has ended in which a component of two or more nodes was merged with
\* another one whose gate differs from its own.
C2_Witness ==
  /\ spc = "done"
  /\ \E i \in 1..Len(mlog) :
       /\ mlog[i].size_a # mlog[i].size_b
       /\ QAdd(mlog[i].max_a, QDiv(mlog[i].k, QInt(mlog[i].size_a ^ mlog[i].exponent)))
            # QAdd(mlog[i].max_b, QDiv(mlog[i].k, QInt(mlog[i].size_b ^ mlog[i].exponent)))

\* The step is an iteration of run's loop that united two components.
MergeStep == spc = "loop" /\ Len(mlog') = Len(mlog) + 1

\* x is the largest of the values in S.
IsMaxOf(x, S) == x \in S /\ \A y \in S : QLeq(y, x)

\* C14: after every merge of run() on the roots a and b that yields the root
\* r, with the right-hand values read before the merge: size[r] = size[a] +
\* size[b]; max_dist[r] is the largest of max_dist[a], max_dist[b] and the
\* distance d of the merge edge; with the guard on, vol[r] = vol[a] + vol[b]
\* and internal_lb[r] = internal_lb[a] + internal_lb[b] + w.
C14_MergeUpdates ==
  [][MergeStep =>
       LET e == edges[ei + 1]
           a == FindNoCompress(parent_, e.u)
           b == FindNoCompress(parent_, e.v)
           r == FindNoCompress(parent_', e.u)
           d == <<d_scale_[2] * e.w[2], d_scale_[1] * e.w[1]>>
       IN /\ a # b
          /\ r \in {a, b}
          /\ r = FindNoCompress(parent_', e.v)
          /\ comp_size_'[r + 1] = comp_size_[a + 1] + comp_size_[b + 1]
          /\ IsMaxOf(max_dist_'[r + 1], {max_dist_[a + 1], max_dist_[b + 1], QNorm(d[1], d[2])})
          /\ cfg_.use_modularity_guard =>
               /\ comp_vol_'[r + 1][1] * comp_vol_[a + 1][2] * comp_vol_[b + 1][2] =
                    comp_vol_'[r + 1][2] * (comp_vol_[a + 1][1] * comp_vol_[b + 1][2]
                                            + comp_vol_[b + 1][1] * comp_vol_[a + 1][2])
               /\ LET la == lb_comp_internal_w_[a + 1]
                      lb == lb_comp_internal_w_[b + 1]
                      lr == lb_comp_internal_w_'[r + 1]
                  IN lr[1] * la[2] * lb[2] * e.w[2] =
                       lr[2] * (la[1] * lb[2] * e.w[2] + lb[1] * la[2] * e.w[2]
                                + e.w[1] * la[2] * lb[2])]_vars

\* A guarded run has ended in which a component of two or more nodes was
\* merged with another one whose largest internal distance differs, and the
\* merged component carries a positive internal lower bound.
C14_Witness ==
  /\ spc = "done"
  /\ cfg_.use_modularity_guard
  /\ \E i \in 1..Len(mlog) :
       /\ mlog[i].size_a + mlog[i].size_b >= 3
       /\ mlog[i].max_a # mlog[i].max_b
       /\ QLess(QInt(1), lb_comp_internal_w_[FindNoCompress(parent_, mlog[i].a) + 1])

\* run() has sorted its argument: edges is the order the loop goes through.
Sorted == spc \in {"loop", "done", "reported"}

\* (u, v) of a before (u, v) of b
PairBefore(a, b) == a.u < b.u \/ (a.u = b.u /\ a.v < b.v)

\* The loop of run() meets the edges in descending order of weight.
DescendingWeights ==
  Sorted => \A i, j \in 1..Len(edges) : i < j => QLeq(edges[j].w, edges[i].w)

\* C15: run() processes the edges in descending order of weight and any two
\* edges of equal weight in ascending (u, v) order, whatever the order of the
\* input vector.
C15_ProcessingOrder ==
  Sorted =>
    \A i, j \in 1..Len(edges) :
      i < j => /\ QLeq(edges[j].w, edges[i].w)
               /\ edges[i].w = edges[j].w => PairBefore(edges[i], edges[j])

\* A run over two or more edges of the same positive weight has ended.
C15_Witness ==
  /\ spc = "done"
  /\ \E i, j \in 1..Len(edges) :
       i < j /\ edges[i].w = edges[j].w /\ QLess(QInt(0), edges[i].w)

\* The iteration at hand reaches the modularity guard: the weight is
\* positive, the endpoints are in different components, the gate lets the
\* edge through and the guard is on.
AtGuard ==
  /\ spc = "loop"
  /\ cfg_.use_modularity_guard
  /\ QLess(QInt(0), edges[ei + 1].w)
  /\ LET a == FindNoCompress(parent_, edges[ei + 1].u)
         b == FindNoCompress(parent_, edges[ei + 1].v)
     IN a # b /\ AllowMerge(a, b, QDiv(QDiv(QInt(1), edges[ei + 1].w), d_scale_))

\* The value run() hands to accept_by_modularity_lowerbound: the weights of
\* the edges from u into the component of v and from v into the component of
\* u, the edge itself counted once.
WAbLb(e) ==
  LET a == FindNoCompress(parent_, e.u)
      b == FindNoCompress(parent_, e.v)
      s1 == SumWeightsToComp(parent_, edges, e.u, b)
      s2 == SumWeightsToComp(parent_, edges, e.v, a)
  IN Float32(QSub(Float32(QAdd(s1.sum, s2.sum)), e.w))

\* The lower-bound stage accepts (and counts) exactly when dq_lower_bound of
\* ab_w is at least the tolerance, the tolerance known to lie in [lo, hi];
\* stated for a total weight m > 0, for which the bound is defined.
LbStage(ab_w) ==
  LET e == edges[ei + 1]
      a == FindNoCompress(parent_, e.u)
      b == FindNoCompress(parent_, e.v)
      tol == DqTolerance(a, b)
      dq == DqLowerBound(a, b, ab_w)
  IN /\ mod_guard_lb_accepts_' \in {mod_guard_lb_accepts_, mod_guard_lb_accepts_ + 1}
     /\ QLess(QInt(0), sum_weights_) =>
          /\ mod_guard_lb_accepts_' = mod_guard_lb_accepts_ + 1 => QLeq(tol.lo, dq)
          /\ mod_guard_lb_accepts_' = mod_guard_lb_accepts_ => QLess(dq, tol.hi)

\* The lower-bound stage as run() computes it, on the bound w_ab_lb.
LbStageOnBoundSum ==
  [][(AtGuard /\ ei' = ei + 1) => LbStage(WAbLb(edges[ei + 1]))]_vars

\* C16: with the guard on, a cross-component edge (u, v, w) that passed the
\* gate is accepted at the lower-bound stage, and counted, exactly when
\* w / m - gamma * vol[a] * vol[b] / (2 m^2) >= tol, w being the weight of the
\* edge at hand, a and b the roots of u and v and tol the anneal tolerance.
C16_LbAcceptOnEdgeWeight ==
  [][(AtGuard /\ ei' = ei + 1) => LbStage(edges[ei + 1].w)]_vars

\* A guarded run has ended with a lower-bound accept of an edge into a
\* component that held two or more nodes.
C16_Witness ==
  /\ spc = "done"
  /\ cfg_.use_modularity_guard
  /\ mod_guard_lb_accepts_ >= 2
  /\ \E i \in 1..Len(mlog) : mlog[i].size_a + mlog[i].size_b >= 3

\* The distances 1 / w of the norm_sample_edges heaviest edges of positive
\* weight, as a sequence in the order of the sorted vector.
SampleDistances ==
  LET pos == SelectSeq(edges, LAMBDA e : QLess(QInt(0), e.w))
      cnt == Min(Len(pos), cfg_.norm_sample_edges)
  IN [i \in 1..cnt |-> QDiv(QInt(1), pos[i].w)]

\* x is a median of the values of sq: at least half of them are <= x and at
\* least half are >= x.
IsMedianOf(x, sq) ==
  /\ 2 * Cardinality({i \in 1..Len(sq) : QLeq(sq[i], x)}) >= Len(sq)
  /\ 2 * Cardinality({i \in 1..Len(sq) : QLeq(x, sq[i])}) >= Len(sq)

\* d_scale_ is 1.0 from reset() on; run() does not assign it.
DScaleIsOne == d_scale_ = QInt(1)

\* C17: with normalize_distances on, run() sets d_scale to the median of 1 / w
\* over the norm_sample_edges heaviest edges, and every distance that enters
\* the gate test and max_dist is (1 / w) / d_scale; with it off, d_scale is 1.
C17_DistanceScale ==
  Sorted =>
    /\ (cfg_.normalize_distances /\ Len(SampleDistances) > 0)
         => IsMedianOf(d_scale_, SampleDistances)
    /\ ~cfg_.normalize_distances => d_scale_ = QInt(1)
    /\ \A i \in 1..Len(mlog) :
         mlog[i].d = QDiv(QDiv(QInt(1), mlog[i].w), d_scale_)

\* A run with normalize_distances on has ended; each of its edges has weight
\* 2, so that every median of the distances is 1/2, and one of them merged.
C17_Witness ==
  /\ spc = "done"
  /\ cfg_.normalize_distances
  /\ Len(edges) >= 2
  /\ \A i \in 1..Len(edges) : edges[i].w = QInt(2)
  /\ Len(mlog) >= 1

FinalRoot(x) == FindNoCompress(parent_, x)

\* C19: with use_modularity_guard off, after run() the lower-bound accept,
\* upper-bound reject and ambiguous counters are 0 and the number of merges,
\* N - num_components(), is the number of positive-weight edges that were
\* cross-component when processed and passed the gate test.
C19_GuardOff ==
  (spc \in {"done", "reported"} /\ ~cfg_.use_modularity_guard) =>
    /\ mod_guard_lb_accepts_ = 0
    /\ mod_guard_ub_rejects_ = 0
    /\ mod_guard_ambiguous_ = 0
    /\ Len(comp_size_) - comp_count_ = gate_passed
    /\ Len(mlog) = gate_passed

\* An unguarded run has ended with a merge, a stored candidate and an edge of
\* non-positive weight.
C19_Witness ==
  /\ spc = "done"
  /\ ~cfg_.use_modularity_guard
  /\ gate_passed = 1
  /\ Len(intercomp_candidates_) >= 1
  /\ \E e \in input : ~QLess(QInt(0), e.w)

\* The second of two runs on the same nodes, with the same k and the same
\* configuration, has returned.
SecondDone == spc = "done" /\ first_run # <<>>

\* C20: edges with w <= 0 are ignored: a run on a vector and a run on the
\* same vector without its edges of weight <= 0 end with the same partition,
\* the same candidate list, the same guard counters and the same m, vol[],
\* internal_lb[], size[] and max_dist[].
C20_NonPositiveIgnored ==
  SecondDone => RunResults = first_run.results

\* The same with m, vol[] and the lower-bound sums out of the picture: runs
\* without the guard.
NonPositiveIgnoredGuardOff ==
  (SecondDone /\ ~cfg_.use_modularity_guard) => RunResults = first_run.results

\* The same for guarded runs with a fixed tolerance whose vector holds no
\* negative weight: edges of weight 0 add nothing to m, vol[] or a sum.
ZeroWeightIgnored ==
  (SecondDone /\ ~cfg_.anneal_modularity_guard /\ \A e \in first_run.input : QLeq(QInt(0), e.w))
    => RunResults = first_run.results

\* C21: reset(N, k) and run(edges) again on the same segmenter, with the same
\* configuration and the vector as the previous run left it, end with the
\* same partition of the vertices and the same guard counters as the
\* previous reset and run.
C21_RerunSameResult ==
  SecondDone =>
    /\ RunResults.classes = first_run.results.classes
    /\ RunResults.lb_accepts = first_run.results.lb_accepts
    /\ RunResults.ub_rejects = first_run.results.ub_rejects
    /\ RunResults.ambiguous = first_run.results.ambiguous

\* The same for a second run whose sort leaves the vector as it found it.
RerunSameOrder ==
  (SecondDone /\ edges = first_run.left) =>
    /\ RunResults.classes = first_run.results.classes
    /\ RunResults.lb_accepts = first_run.results.lb_accepts
    /\ RunResults.ub_rejects = first_run.results.ub_rejects
    /\ RunResults.ambiguous = first_run.results.ambiguous

\* The second run has returned after meeting two edges of equal weight in the
\* other order than the first run, and a merge happened.
C21_Witness ==
  /\ SecondDone
  /\ edges # first_run.left
  /\ Len(mlog) >= 1
  /\ Cardinality(first_run.results.classes) < Len(parent_)

\* Two runs have ended, the first on a vector with an edge of negative weight
\* and an edge of weight 0 next to a positive one that merged, the second on
\* the positive edge alone.
C20_Witness ==
  /\ SecondDone
  /\ Len(mlog) = 1
  /\ Len(edges) = 1
  /\ \E e \in first_run.input : QLess(e.w, QInt(0))
  /\ \E e \in first_run.input : e.w = QInt(0)
  /\ Cardinality(first_run.results.classes) < Len(parent_)

\* The positive-weight edges run() went through whose endpoints both lie in
\* the final component of the representative r.
InsideEdges(r) ==
  {e \in input : QLess(QInt(0), e.w) /\ FinalRoot(e.u) = r /\ FinalRoot(e.v) = r}

\* The largest of the distances in D, 0 when there is none.
LargestDistance(D) ==
  IF D = {} THEN QInt(0) ELSE CHOOSE d \in D : \A x \in D : QLeq(x, d)

\* comp_min_weight(r); <<1, 0>> stands for infinity.
CompMinWeight(r) ==
  IF QLess(QInt(0), max_dist_[r + 1]) THEN QDiv(QInt(1), max_dist_[r + 1]) ELSE <<1, 0>>

\* The smallest of the weights of the edges in E, infinity when there is none.
SmallestWeight(E) ==
  IF E = {} THEN <<1, 0>> ELSE CHOOSE w \in {e.w : e \in E} : \A e \in E : QLeq(w, e.w)

\* max_dist of a final root is the largest distance of the edges that merged
\* its component together.
MaxDistOverMerges ==
  spc = "done" =>
    \A r \in Roots(parent_) :
      max_dist_[r + 1] =
        LargestDistance({mlog[i].d : i \in {j \in 1..Len(mlog) : FinalRoot(mlog[j].u) = r}})

\* C18: after run(), max_dist[r] of every final root r is the largest
\* distance (1 / w) / d_scale of the positive-weight edges that run() went
\* through and that have both endpoints in component r, 0 when there is none;
\* comp_min_weight(r) is then the smallest weight of such an edge, infinity
\* when there is none.
C18_MaxDistInside ==
  spc = "done" =>
    \A r \in Roots(parent_) :
      /\ max_dist_[r + 1] =
           LargestDistance({QDiv(QDiv(QInt(1), e.w), d_scale_) : e \in InsideEdges(r)})
      /\ CompMinWeight(r) = SmallestWeight(InsideEdges(r))

\* A run has ended with a component of three nodes that holds three edges,
\* the lightest of which found its endpoints already joined.
C18_Witness ==
  /\ spc = "done"
  /\ \E r \in Roots(parent_) :
       /\ comp_size_[r + 1] = 3
       /\ Cardinality(InsideEdges(r)) = 3
       /\ Len(mlog) = 2
       /\ \E e \in InsideEdges(r) : \A i \in 1..Len(mlog) : QLess(e.w, mlog[i].w)

\* The positive-weight input edges that run between the final components of
\* the representatives ra and rb.
CrossEdges(ra, rb) ==
  {e \in input : QLess(QInt(0), e.w) /\ {FinalRoot(e.u), FinalRoot(e.v)} = {ra, rb}}

HeaviestW(S) == CHOOSE w \in {e.w : e \in S} : \A e \in S : QLeq(e.w, w)

ExpectedStrongest ==
  {[u |-> q[1], v |-> q[2], w |-> HeaviestW(CrossEdges(q[1], q[2]))] :
     q \in {r \in Roots(parent_) \X Roots(parent_) :
              r[1] < r[2] /\ CrossEdges(r[1], r[2]) # {}}}

\* C4: after run(), strongest_inter_component_edges() returns exactly one
\* entry for every unordered pair of distinct final components joined by at
\* least one positive-weight input edge, and no other entry; its endpoints are
\* the two final representatives and its weight is the largest weight of the
\* input edges between the two components.
C4_StrongestPerPair ==
  spc = "reported" => out = ExpectedStrongest

\* The same statement for the runs whose stop threshold did not wrap.
StrongestPerPairWithoutWrap ==
  (spc = "reported" /\ comp_count_ * (comp_count_ - 1) < UMod) => out = ExpectedStrongest

\* A report over three final components, two of which are joined by two
\* rejected edges of different weight.
C4_Witness ==
  /\ spc = "reported"
  /\ comp_count_ = 3
  /\ \E o \in out : Cardinality(CrossEdges(o.u, o.v)) = 2
                    /\ \E e \in CrossEdges(o.u, o.v) : e.w # o.w

\* ============================================================ modularity()
\* Calls are drawn over up to ModNodes vertices, vectors of up to ModEdges
\* edges with weights in -NegWeights..MaxWeight, labels in
\* -NegLabels..ModLabels and gamma in 1/2, .., ModGamma2 / 2.
ModNodes == 3
ModEdges == 2
ModLabels == 2
NegLabels == 1
ModGamma2 == 3

\* k[v] after the first loop over edges[1..i]
RECURSIVE Strength(_, _, _)
Strength(es, v, i) ==
  IF i = 0 THEN QInt(0)
  ELSE LET k0 == Strength(es, v, i - 1)
           k1 == IF es[i].u = v THEN QAdd(k0, es[i].w) ELSE k0
       IN IF es[i].v = v THEN QAdd(k1, es[i].w) ELSE k1

\* max_label after the first loop over the vertices
RECURSIVE MaxLabelLoop(_, _, _)
MaxLabelLoop(comm, v, max_label) ==
  IF v > Len(comm) THEN max_label
  ELSE MaxLabelLoop(comm, v + 1, IF comm[v] > max_label THEN comm[v] ELSE max_label)

\* remap and C after the compaction loop: the labels >= 0 are numbered in the
\* order in which the vertices 0, 1, .. first show them.
RECURSIVE RemapLoop(_, _, _, _)
RemapLoop(comm, v, remap, C) ==
  IF v > Len(comm) THEN [remap |-> remap, C |-> C]
  ELSE LET lbl == comm[v]
       IN IF lbl < 0 THEN RemapLoop(comm, v + 1, remap, C)
          ELSE IF remap[lbl] = -1
               THEN RemapLoop(comm, v + 1, [remap EXCEPT ![lbl] = C], C + 1)
               ELSE RemapLoop(comm, v + 1, remap, C)

\* remap[comm[e.u]] of the loop over the edges.  A label < 0 indexes before
\* the first element of remap: the read gives whatever the build finds
\* there, junk[lbl].
RemapRead(remap, lbl, junk) == IF lbl \in DOMAIN remap THEN remap[lbl] ELSE junk[lbl]

\* sum_tot[c] after the loop over the vertices v..n-1 (v counted from 1)
RECURSIVE SumTot(_, _, _, _, _)
SumTot(es, comm, remap, c, v) ==
  IF v > Len(comm) THEN QInt(0)
  ELSE LET rest == SumTot(es, comm, remap, c, v + 1)
       IN IF comm[v] >= 0 /\ remap[comm[v]] = c
          THEN QAdd(Strength(es, v - 1, Len(es)), rest)
          ELSE rest

\* sum_in[c] after the loop over edges[1..i]
RECURSIVE SumIn(_, _, _, _, _, _)
SumIn(es, comm, remap, junk, c, i) ==
  IF i = 0 THEN QInt(0)
  ELSE LET rest == SumIn(es, comm, remap, junk, c, i - 1)
           cu == RemapRead(remap, comm[es[i].u + 1], junk)
           cv == RemapRead(remap, comm[es[i].v + 1], junk)
       IN IF cu >= 0 /\ cu = cv /\ cu = c THEN QAdd(rest, es[i].w) ELSE rest

\* Q after the terms of the communities 0..c-1
RECURSIVE QLoop(_, _, _, _, _, _, _)
QLoop(es, comm, remap, junk, gamma, m, c) ==
  IF c = 0 THEN QInt(0)
  ELSE LET in_c == SumIn(es, comm, remap, junk, c - 1, Len(es))
           tot_c == SumTot(es, comm, remap, c - 1, 1)
           two_m == QMul(QInt(2), m)
           frac == QDiv(tot_c, two_m)
       IN QAdd(QLoop(es, comm, remap, junk, gamma, m, c - 1),
               QSub(QDiv(in_c, m), QMul(gamma, QMul(frac, frac))))

\* modularity(nn, es, comm_of, gamma), comm the labels comm_of(0..nn-1).
\* An edge whose two reads of remap give the same index >= C adds to
\* sum_in past its end: the call has no defined outcome from there (crash).
Modularity(nn, es, comm, gamma, junk) ==
  LET m == SumW(es, Len(es))
      size == Max(MaxLabelLoop(comm, 1, -1) + 1, nn)
      rl == RemapLoop(comm, 1, [l \in 0..(size - 1) |-> -1], 0)
      wild == \E i \in 1..Len(es) :
                LET cu == RemapRead(rl.remap, comm[es[i].u + 1], junk)
                    cv == RemapRead(rl.remap, comm[es[i].v + 1], junk)
                IN cu >= rl.C /\ cu = cv
  IN IF nn = 0 THEN [crash |-> FALSE, q |-> QInt(0)]
     ELSE IF m = QInt(0) THEN [crash |-> FALSE, q |-> QInt(0)]
     ELSE IF rl.C = 0 THEN [crash |-> FALSE, q |-> QInt(0)]
     ELSE IF wild THEN [crash |-> TRUE, q |-> QInt(0)]
     ELSE [crash |-> FALSE, q |-> QLoop(es, comm, rl.remap, junk, gamma, m, rl.C)]

\* What a read before the start of remap may give: -1, an index of a
\* community, or a value past the last community (args.n stands for those).
JunkReads(args) == [(-NegLabels)..(-1) -> (-1)..args.n]

\* One call of modularity().
ModularityCall(args) ==
  /\ q_in' = args
  /\ \E junk \in JunkReads(args) :
       LET r == Modularity(args.n, args.edges, args.comm, args.gamma, junk)
       IN /\ q_junk' = junk
          /\ q_out' = r.q
          /\ qpc' = IF r.crash THEN "crashed" ELSE "returned"

ModularityRun ==
  /\ qpc = "call"
  /\ ModularityCall(q_in)
  /\ UNCHANGED <<vigVars, dsuVars, segVars, cnfVars, sumVars>>

\* The edges of a call: u < v < nn, any weight of the universe.
ModEdgeSeqs(nn) ==
  UNION {[1..len -> EdgeUniverse(nn)] : len \in 0..ModEdges}

ModInit ==
  /\ VigIdle
  /\ DsuIdle
  /\ SegIdle
  /\ CnfIdle
  /\ SumIdle
  /\ \E nn \in 0..ModNodes :
       q_in \in [n : {nn}, edges : ModEdgeSeqs(nn),
                 comm : [1..nn -> (-NegLabels)..ModLabels],
                 gamma : {QNorm(g, 2) : g \in 1..ModGamma2}]
  /\ q_out = QInt(0)
  /\ qpc = "call"
  /\ q_junk = <<>>

ModNext == ModularityRun

SpecMod == ModInit /\ [][ModNext]_vars

\* ---- modularity(): properties
\* The sum of the weights of the edges with an index in I
RECURSIVE SumOver(_, _)
SumOver(es, I) ==
  IF I = {} THEN QInt(0)
  ELSE LET i == CHOOSE j \in I : TRUE IN QAdd(es[i].w, SumOver(es, I \ {i}))

\* The communities of a labelling: the sets of vertices that share a label >= 0.
Communities(comm) ==
  {{v \in 0..(Len(comm) - 1) : comm[v + 1] = l} : l \in {comm[i] : i \in DOMAIN comm} \cap Nat}

SigmaIn(es, S) == SumOver(es, {i \in DOMAIN es : es[i].u \in S /\ es[i].v \in S})
SigmaTot(es, S) ==
  QAdd(SumOver(es, {i \in DOMAIN es : es[i].u \in S}),
       SumOver(es, {i \in DOMAIN es : es[i].v \in S}))

RECURSIVE CommunitySum(_, _, _, _)
CommunitySum(es, gamma, m, SS) ==
  IF SS = {} THEN QInt(0)
  ELSE LET S == CHOOSE T \in SS : TRUE
           frac == QDiv(SigmaTot(es, S), QMul(QInt(2), m))
       IN QAdd(QSub(QDiv(SigmaIn(es, S), m), QMul(gamma, QMul(frac, frac))),
               CommunitySum(es, gamma, m, SS \ {S}))

\* sum over the communities c of Sigma_in(c)/m - gamma (Sigma_tot(c)/(2m))^2,
\* and 0 when m = 0 or n = 0
StatedQ(args) ==
  LET m == SumOver(args.edges, DOMAIN args.edges)
  IN IF args.n = 0 \/ m = QInt(0) THEN QInt(0)
     ELSE CommunitySum(args.edges, args.gamma, m, Communities(args.comm))

\* The injective renamings of the labels >= 0
Renamings ==
  {ren \in [0..ModLabels -> 0..(ModLabels + 1)] :
     \A a, b \in 0..ModLabels : a # b => ren[a] # ren[b]}
Renamed(comm, ren) == [i \in DOMAIN comm |-> IF comm[i] >= 0 THEN ren[comm[i]] ELSE comm[i]]

ModularityAsStated ==
  /\ qpc = "returned"
  /\ q_out = StatedQ(q_in)
  /\ \A ren \in Renamings :
       LET r == Modularity(q_in.n, q_in.edges, Renamed(q_in.comm, ren), q_in.gamma, q_junk)
       IN ~r.crash /\ r.q = q_out

CallOver == qpc \in {"returned", "crashed"}

\* C30: for every edge list with u, v in [0, n) and every labelling,
\* modularity() returns the sum over the communities c of
\* Sigma_in(c)/m - gamma (Sigma_tot(c)/(2m))^2 with m the total edge weight;
\* the value is unchanged by any injective renaming of the labels >= 0, and
\* it is 0 when m = 0 or n = 0.
C30_ModularityFormula == CallOver => ModularityAsStated

\* The same for the labellings without a label < 0.
ModularityOnValidLabels ==
  (CallOver /\ \A i \in DOMAIN q_in.comm : q_in.comm[i] >= 0) => ModularityAsStated

\* The same for the labellings in which no edge touches a label < 0.
ModularityAwayFromInvalid ==
  (CallOver /\ \A i \in DOMAIN q_in.edges :
                 q_in.comm[q_in.edges[i].u + 1] >= 0 /\ q_in.comm[q_in.edges[i].v + 1] >= 0)
    => ModularityAsStated

\* A call is over on two communities, one with an edge inside and an edge
\* leaving it, with gamma = 1/2 and a value that is not 0.
C30_Witness ==
  /\ CallOver
  /\ q_in.n = 3
  /\ q_in.gamma = <<1, 2>>
  /\ Cardinality(Communities(q_in.comm)) = 2
  /\ \E i, j \in DOMAIN q_in.edges :
       /\ q_in.comm[q_in.edges[i].u + 1] = q_in.comm[q_in.edges[i].v + 1]
       /\ q_in.comm[q_in.edges[j].u + 1] # q_in.comm[q_in.edges[j].v + 1]
  /\ q_out # QInt(0)

\* ---- run() on an empty edge vector, then modularity() of the components
\* (segmentation/main.cpp: modularity(g.n, g.edges, component_no_compress, 1.0))
RunEmpty ==
  /\ spc = "idle"
  /\ RunEnter({}, <<>>)

SegModularity ==
  /\ spc \in {"done", "reported"}
  /\ qpc = "idle"
  /\ ModularityCall([n |-> Len(parent_), edges |-> edges,
                     comm |-> [i \in 1..Len(parent_) |-> FindNoCompress(parent_, i - 1)],
                     gamma |-> QInt(1)])
  /\ UNCHANGED <<vigVars, dsuVars, segVars, cnfVars, sumVars>>

EmptyNext ==
  \/ \E c \in Configs : SetConfig(c)
  \/ RunEmpty
  \/ Strongest
  \/ SegModularity

SpecEmpty == SegInit /\ [][EmptyNext]_vars

EmptyRunOver == spc \in {"done", "crashed", "reported"} /\ input = {} /\ edges = <<>>

EmptyRunAsStated ==
  /\ spc # "crashed"
  /\ comp_count_ = Len(parent_)
  /\ \A i \in 1..Len(parent_) :
       parent_[i] = i - 1 /\ comp_size_[i] = 1 /\ max_dist_[i] = QInt(0)
  /\ intercomp_candidates_ = <<>>
  /\ mod_guard_lb_accepts_ = 0
  /\ mod_guard_ub_rejects_ = 0
  /\ mod_guard_ambiguous_ = 0
  /\ qpc # "crashed"
  /\ qpc = "returned" => q_out = QInt(0)

\* C22: for every N >= 0, run() on an empty edge list completes normally and
\* leaves N singleton components (num_components() = N, every size 1, every
\* max_dist 0), an empty candidate list and all guard counters 0;
\* modularity() of that labelling over the empty edge list is 0.
C22_EmptyRun == EmptyRunOver => EmptyRunAsStated

\* The same for N >= 1.
EmptyRunWithNodes == (EmptyRunOver /\ Len(parent_) >= 1) => EmptyRunAsStated

\* run() was called with no edge on a segmenter of no node and did not return.
C22_Witness ==
  /\ EmptyRunOver
  /\ Len(parent_) = 0
  /\ spc = "crashed"

\* run() on an empty edge list is over on MaxNodes nodes and modularity()
\* has returned.
EmptyRunMeasured ==
  /\ EmptyRunOver
  /\ Len(parent_) = MaxNodes
  /\ qpc = "returned"

\* ============================================================ class CNF
\* A DIMACS text is a sequence of lines.  A line is a comment, a blank line,
\* a problem line "p cnf nv nc" or a clause line: literals over the
\* variables 1..CnfVars, at most CnfLen of them, then the terminating 0.
\* A text has at most CnfLines clause lines.
CnfVars == 2
CnfLen == 3
CnfLines == 2

Lits == {l \in (-CnfVars)..CnfVars : l # 0}
Line(kind, nv, nc, toks) == [kind |-> kind, nv |-> nv, nc |-> nc, toks |-> toks]
CommentLine == Line("c", 0, 0, <<>>)
BlankLine == Line("blank", 0, 0, <<>>)
ClauseLines == {Line("clause", 0, 0, lits \o <<0>>) : lits \in UNION {[1..len -> Lits] : len \in 0..CnfLen}}
ProblemLines == {Line("p", nv, nc, <<>>) : nv \in {0, CnfVars}, nc \in 0..CnfLines}

\* The texts: comments or blank lines, then a problem line or none, then
\* the clause lines.
Texts ==
  {head \o pl \o body :
     head \in {<<>>, <<CommentLine, BlankLine>>},
     pl \in {<<>>} \cup {<<l>> : l \in ProblemLines},
     body \in UNION {[1..len -> ClauseLines] : len \in 0..CnfLines}}

AbsLit(l) == IF l < 0 THEN -l ELSE l

\* parse_stream, first loop: the index of the first line that is neither
\* blank nor a comment, Len(txt) + 1 if there is none
RECURSIVE FirstLine(_, _)
FirstLine(txt, i) ==
  IF i > Len(txt) THEN i
  ELSE IF txt[i].kind \in {"blank", "c"} THEN FirstLine(txt, i + 1) ELSE i

\* parse_stream, second pass over a clause line: the tokens before the first 0
RECURSIVE TakeLiterals(_, _)
TakeLiterals(toks, i) ==
  IF i > Len(toks) \/ toks[i] = 0 THEN <<>>
  ELSE <<toks[i]>> \o TakeLiterals(toks, i + 1)

\* parse_stream, loop over the lines after the problem line
RECURSIVE ReadClauses(_, _)
ReadClauses(txt, i) ==
  IF i > Len(txt) THEN <<>>
  ELSE IF txt[i].kind \in {"blank", "c"} THEN ReadClauses(txt, i + 1)
  ELSE LET clause == TakeLiterals(txt[i].toks, 1)
       IN IF clause # <<>> THEN <<clause>> \o ReadClauses(txt, i + 1)
          ELSE ReadClauses(txt, i + 1)

\* do_compact_variables: the loop over the literals in reading order.
\* st = [clauses, map, cur]; map is variable_map with a 0 for every index
\* it would be resized to.
RECURSIVE CompactLoop(_, _, _)
CompactLoop(st, c_idx, l_idx) ==
  IF c_idx > Len(st.clauses) THEN st
  ELSE IF l_idx > Len(st.clauses[c_idx]) THEN CompactLoop(st, c_idx + 1, 1)
  ELSE LET literal == st.clauses[c_idx][l_idx]
           var == AbsLit(literal)
           fresh == st.map[var] = 0
           map1 == IF fresh THEN [st.map EXCEPT ![var] = st.cur] ELSE st.map
           literal_sign == IF literal < 0 THEN -1 ELSE 1
       IN CompactLoop([clauses |-> [st.clauses EXCEPT ![c_idx][l_idx] = literal_sign * map1[var]],
                       map |-> map1,
                       cur |-> IF fresh THEN st.cur + 1 ELSE st.cur],
                      c_idx, l_idx + 1)

DoCompactVariables(o) ==
  LET r == CompactLoop([clauses |-> o.clauses, map |-> [v \in 1..CnfVars |-> 0], cur |-> 1], 1, 1)
  IN [o EXCEPT !.clauses = r.clauses, !.variable_count = r.cur - 1]

\* do_normalize_clauses: the comparator of the sort
LitLess(a, b) == IF AbsLit(a) # AbsLit(b) THEN AbsLit(a) < AbsLit(b) ELSE a < b

\* std::sort with LitLess, a strict total order: the result is the one
\* ascending arrangement
RECURSIVE SortLits(_)
SortLits(clause) ==
  IF clause = <<>> THEN <<>>
  ELSE LET i == CHOOSE j \in DOMAIN clause :
                  \A k \in DOMAIN clause : ~LitLess(clause[k], clause[j])
       IN <<clause[i]>> \o SortLits(SubSeq(clause, 1, i - 1) \o SubSeq(clause, i + 1, Len(clause)))

\* (variant: a literal equal to its predecessor is kept)
ScanKeepsDuplicates(clause, i, sc) ==
  [taut |-> \E a, b \in DOMAIN clause : clause[a] = -clause[b],
   out |-> clause, has_prev |-> clause # <<>>, prev |-> 0]

\* do_normalize_clauses: the scan of a sorted clause from literal i on.
\* sc = [taut, out, has_prev, prev]
RECURSIVE ScanLits(_, _, _)
ScanLits(clause, i, sc) ==
  IF i > Len(clause) THEN sc
  ELSE LET lit == clause[i]
       IN IF sc.has_prev /\ AbsLit(lit) = AbsLit(sc.prev)
          THEN IF (lit < 0) # (sc.prev < 0)
               THEN [sc EXCEPT !.taut = TRUE]
               ELSE ScanLits(clause, i + 1, sc)
          ELSE ScanLits(clause, i + 1,
                        [sc EXCEPT !.out = Append(sc.out, lit), !.has_prev = TRUE, !.prev = lit])

RECURSIVE NormalizeLoop(_, _)
NormalizeLoop(cls, i) ==
  IF i > Len(cls) THEN <<>>
  ELSE IF cls[i] = <<>> THEN NormalizeLoop(cls, i + 1)
  ELSE LET sc == ScanLits(SortLits(cls[i]), 1,
                          [taut |-> FALSE, out |-> <<>>, has_prev |-> FALSE, prev |-> 0])
       IN IF ~sc.taut /\ sc.out # <<>>
          THEN <<sc.out>> \o NormalizeLoop(cls, i + 1)
          ELSE NormalizeLoop(cls, i + 1)

DoNormalizeClauses(o) ==
  LET normalized == NormalizeLoop(o.clauses, 1)
  IN [o EXCEPT !.clauses = normalized, !.clause_count = Len(normalized)]

\* The members after reset()
ResetCnf == [valid |-> FALSE, variable_count |-> 0, clause_count |-> 0, clauses |-> <<>>]

\* parse_stream(file, variable_compaction, normalize)
ParseStream(txt, variable_compaction, normalize) ==
  LET h == FirstLine(txt, 1)
  IN IF h > Len(txt) \/ txt[h].kind # "p" THEN ResetCnf
     ELSE LET read == [valid |-> TRUE, variable_count |-> txt[h].nv,
                       clause_count |-> txt[h].nc, clauses |-> ReadClauses(txt, h + 1)]
              compacted == IF variable_compaction THEN DoCompactVariables(read) ELSE read
          IN IF normalize THEN DoNormalizeClauses(compacted) ELSE compacted

CnfObject ==
  [valid |-> valid, variable_count |-> variable_count, clause_count |-> clause_count,
   clauses |-> cnf_clauses]

CnfBefore(done) ==
  [compacted |-> done, clauses |-> cnf_clauses, variable_count |-> variable_count,
   clause_count |-> clause_count]

SetCnf(o) ==
  /\ valid' = o.valid
  /\ variable_count' = o.variable_count
  /\ clause_count' = o.clause_count
  /\ cnf_clauses' = o.clauses

\* CNF(in, variable_compaction, normalize)
Construct(variable_compaction, normalize) ==
  /\ cnf_hist.op = "none"
  /\ SetCnf(ParseStream(text, variable_compaction, normalize))
  /\ cnf_hist' = [op |-> "construct", compaction |-> variable_compaction,
                  normalize |-> normalize,
                  compacted |-> variable_compaction /\ FirstLine(text, 1) <= Len(text)
                                  /\ text[FirstLine(text, 1)].kind = "p",
                  before |-> CnfBefore(FALSE)]
  /\ UNCHANGED <<text, vigVars, dsuVars, segVars, modVars, sumVars>>

\* compact_variables()
CompactVariables ==
  /\ cnf_hist.op # "none"
  /\ SetCnf(IF valid THEN DoCompactVariables(CnfObject) ELSE CnfObject)
  /\ cnf_hist' = [cnf_hist EXCEPT !.op = "compact", !.compacted = valid,
                                  !.before = CnfBefore(cnf_hist.compacted)]
  /\ UNCHANGED <<text, vigVars, dsuVars, segVars, modVars, sumVars>>

\* normalize_clauses()
NormalizeClauses ==
  /\ cnf_hist.op # "none"
  /\ SetCnf(IF valid THEN DoNormalizeClauses(CnfObject) ELSE CnfObject)
  /\ cnf_hist' = [cnf_hist EXCEPT !.op = "normalize",
                                  !.before = CnfBefore(cnf_hist.compacted)]
  /\ UNCHANGED <<text, vigVars, dsuVars, segVars, modVars, sumVars>>

CnfInit ==
  /\ VigIdle
  /\ DsuIdle
  /\ SegIdle
  /\ ModIdle
  /\ SumIdle
  /\ valid = FALSE
  /\ variable_count = 0
  /\ clause_count = 0
  /\ cnf_clauses = <<>>
  /\ text \in Texts
  /\ cnf_hist = NoCnfHist

CnfNext ==
  \/ \E variable_compaction, normalize \in BOOLEAN : Construct(variable_compaction, normalize)
  \/ CompactVariables
  \/ NormalizeClauses

SpecCnf == CnfInit /\ [][CnfNext]_vars

\* ---- class CNF: properties
Constructed == cnf_hist.op # "none"
HasProblemLine(txt) == FirstLine(txt, 1) <= Len(txt) /\ txt[FirstLine(txt, 1)].kind = "p"
DeclaredClauses(txt) == txt[FirstLine(txt, 1)].nc
\* The clause lines after the problem line, and those of them with a literal
ClauseLineCount(txt) ==
  Cardinality({i \in (FirstLine(txt, 1) + 1)..Len(txt) : txt[i].kind = "clause"})
StoredClauseCount(txt) == Len(ReadClauses(txt, FirstLine(txt, 1) + 1))
\* The declared count is the number of clauses under neither way of counting.
CountMismatch(txt) ==
  /\ HasProblemLine(txt)
  /\ DeclaredClauses(txt) # ClauseLineCount(txt)
  /\ DeclaredClauses(txt) # StoredClauseCount(txt)

\* C29: a DIMACS input whose number of parsed clauses differs from the
\* clause count declared on the problem line, or that has no valid problem
\* line, yields an invalid CNF (is_valid() = false).
C29_MalformedInvalid ==
  (Constructed /\ (~HasProblemLine(text) \/ CountMismatch(text))) => ~valid

\* Without a problem line the object is invalid and empty.
NoProblemLineInvalid == (Constructed /\ ~HasProblemLine(text)) => CnfObject = ResetCnf

\* With a problem line the object is valid, whatever it declares.
ProblemLineValid == (Constructed /\ HasProblemLine(text)) => valid

\* A CNF was built from a text that declares another number of clauses
\* than it holds, and is_valid() is true.
C29_Witness ==
  /\ cnf_hist.op = "construct"
  /\ CountMismatch(text)
  /\ cnf_clauses # <<>>
  /\ valid

Tautological(clause) == \E i, j \in DOMAIN clause : clause[i] = -clause[j]
StrictlyAscending(clause) ==
  \A i \in 1..(Len(clause) - 1) : AbsLit(clause[i]) < AbsLit(clause[i + 1])
Retained(cls) == SelectSeq(cls, LAMBDA clause : clause # <<>> /\ ~Tautological(clause))
LitSet(clause) == {clause[i] : i \in DOMAIN clause}

\* The state is the result of a normalization of NormInput.
AfterNormalization ==
  /\ valid
  /\ cnf_hist.op = "normalize" \/ (cnf_hist.op = "construct" /\ cnf_hist.normalize)
NormInput ==
  IF cnf_hist.op = "normalize" THEN cnf_hist.before.clauses
  ELSE LET read == [ResetCnf EXCEPT !.clauses = ReadClauses(text, FirstLine(text, 1) + 1)]
       IN IF cnf_hist.compaction THEN DoCompactVariables(read).clauses ELSE read.clauses

\* C28: after normalization every retained clause is non-empty, strictly
\* ascending by |literal| (so no variable occurs twice), and equals the input
\* clause with same-sign duplicate literals removed; every input clause
\* containing a variable in both polarities and every empty clause is
\* dropped, the relative order of retained clauses is kept, and clause_count
\* equals the number of retained clauses.
C28_Normalized ==
  AfterNormalization =>
    LET kept == Retained(NormInput)
    IN /\ Len(cnf_clauses) = Len(kept)
       /\ \A i \in DOMAIN cnf_clauses :
            /\ cnf_clauses[i] # <<>>
            /\ StrictlyAscending(cnf_clauses[i])
            /\ LitSet(cnf_clauses[i]) = LitSet(kept[i])
       /\ clause_count = Len(cnf_clauses)

\* normalize_clauses() has dropped a tautological clause and has kept a
\* clause that was out of order and held a literal twice; clause_count
\* went down.
C28_Witness ==
  /\ AfterNormalization
  /\ cnf_hist.op = "normalize"
  /\ Len(NormInput) = 2
  /\ Tautological(NormInput[1])
  /\ ~Tautological(NormInput[2])
  /\ ~StrictlyAscending(NormInput[2])
  /\ Len(cnf_clauses) = 1
  /\ Len(cnf_clauses[1]) = 2
  /\ Len(NormInput[2]) = 3
  /\ clause_count < cnf_hist.before.clause_count

IsNormalized(cls) == \A i \in DOMAIN cls : cls[i] # <<>> /\ StrictlyAscending(cls[i])
NormalizedBefore ==
  cnf_hist.op = "normalize" /\ valid /\ IsNormalized(cnf_hist.before.clauses)

\* C26: normalize_clauses() is idempotent: applied to a CNF whose clauses
\* are already normalized it leaves the clause list (contents and order)
\* and clause_count unchanged.
C26_NormalizeIdempotent ==
  NormalizedBefore =>
    /\ cnf_clauses = cnf_hist.before.clauses
    /\ clause_count = cnf_hist.before.clause_count

\* The clause list part alone.
NormalizeKeepsNormalizedList == NormalizedBefore => cnf_clauses = cnf_hist.before.clauses

\* The same when clause_count was the length of the clause list.
NormalizeKeepsCount ==
  (NormalizedBefore /\ cnf_hist.before.clause_count = Len(cnf_hist.before.clauses))
    => clause_count = cnf_hist.before.clause_count

\* normalize_clauses() was called on a CNF built without normalization
\* whose CnfLines clauses were normalized, and clause_count changed.
C26_Witness ==
  /\ NormalizedBefore
  /\ ~cnf_hist.normalize
  /\ Len(cnf_hist.before.clauses) = CnfLines
  /\ clause_count # cnf_hist.before.clause_count

\* The literals of a clause list in reading order
RECURSIVE Flat(_)
Flat(cls) == IF cls = <<>> THEN <<>> ELSE Head(cls) \o Flat(Tail(cls))
FirstUse(cls, v) ==
  CHOOSE i \in DOMAIN Flat(cls) :
    AbsLit(Flat(cls)[i]) = v /\ \A j \in 1..(i - 1) : AbsLit(Flat(cls)[j]) # v
\* The variables in use are 1..count, numbered in the order of first use.
Dense(cls, count) ==
  /\ {AbsLit(Flat(cls)[i]) : i \in DOMAIN Flat(cls)} = 1..count
  /\ \A v \in 2..count : FirstUse(cls, v - 1) < FirstUse(cls, v)

CompactedBefore == cnf_hist.op = "compact" /\ valid /\ cnf_hist.before.compacted
CompactChangedNothing ==
  /\ cnf_clauses = cnf_hist.before.clauses
  /\ variable_count = cnf_hist.before.variable_count

\* C27: compact_variables() is idempotent: applied to any valid CNF that
\* has already been compacted (in particular one built by the constructor
\* with variable_compaction = true, with normalization either on or off) it
\* leaves every clause and variable_count unchanged.
C27_CompactIdempotent == CompactedBefore => CompactChangedNothing

\* The same for a CNF whose variables are 1..variable_count in the order
\* of first use.
CompactKeepsDense ==
  (cnf_hist.op = "compact" /\ valid
     /\ Dense(cnf_hist.before.clauses, cnf_hist.before.variable_count))
    => CompactChangedNothing

\* Compaction alone leaves such a CNF.
CompactionGivesDense ==
  (valid /\ (cnf_hist.op = "compact"
               \/ (cnf_hist.op = "construct" /\ cnf_hist.compaction /\ ~cnf_hist.normalize)))
    => Dense(cnf_clauses, variable_count)

\* compact_variables() was called on a CNF built with compaction and
\* normalization, and renamed a variable.
C27_Witness ==
  /\ CompactedBefore
  /\ cnf_hist.compaction
  /\ cnf_hist.normalize
  /\ cnf_hist.before.clauses # <<>>
  /\ cnf_clauses # cnf_hist.before.clauses

\* ---- modularity(): the range of the value
NonNegativeWeights(es) == \A i \in DOMAIN es : QLeq(QInt(0), es[i].w)
ValidLabels(comm) == \A i \in DOMAIN comm : comm[i] >= 0
InRange(q) == QLeq(QNorm(-1, 2), q) /\ QLeq(q, QInt(1))

\* C31: for every graph with non-negative edge weights, every labelling and
\* every resolution gamma accepted by modularity(), the returned Q satisfies
\* -1/2 <= Q <= 1.
C31_ModularityRange ==
  (CallOver /\ NonNegativeWeights(q_in.edges)) => (qpc = "returned" /\ InRange(q_out))

\* The same for gamma <= 1 and labels >= 0.
ModularityRangeUpToOne ==
  (CallOver /\ NonNegativeWeights(q_in.edges) /\ ValidLabels(q_in.comm)
     /\ QLeq(q_in.gamma, QInt(1)))
    => (qpc = "returned" /\ InRange(q_out))

\* For any gamma of the calls the value is at most 1 and at least -gamma / 2.
ModularityRangeByGamma ==
  (CallOver /\ NonNegativeWeights(q_in.edges) /\ ValidLabels(q_in.comm))
    => /\ qpc = "returned"
       /\ QLeq(q_out, QInt(1))
       /\ QLeq(QDiv(QSub(QInt(0), q_in.gamma), QInt(2)), q_out)

\* A call with positive weights, labels >= 0 and gamma = 3/2 has returned
\* a value below -1/2.
C31_Witness ==
  /\ qpc = "returned"
  /\ q_in.edges # <<>>
  /\ NonNegativeWeights(q_in.edges)
  /\ ValidLabels(q_in.comm)
  /\ q_in.gamma = <<3, 2>>
  /\ QLess(q_out, QNorm(-1, 2))

\* ============================================================ comp_metrics
\* ---- natural numbers of any length: limbs of LimbBits bits, lowest first,
\* the highest limb not 0
LimbBits == 13
Base == 2 ^ LimbBits

RECURSIVE BNorm(_)
BNorm(a) == IF a = <<>> \/ a[Len(a)] # 0 THEN a ELSE BNorm(SubSeq(a, 1, Len(a) - 1))

RECURSIVE BOfInt(_)
BOfInt(x) == IF x = 0 THEN <<>> ELSE <<x % Base>> \o BOfInt(x \div Base)

BLimb(a, i) == IF i >= 1 /\ i <= Len(a) THEN a[i] ELSE 0

RECURSIVE BAddFrom(_, _, _, _)
BAddFrom(a, b, i, carry) ==
  IF i > Len(a) /\ i > Len(b) THEN (IF carry # 0 THEN <<carry>> ELSE <<>>)
  ELSE LET t == BLimb(a, i) + BLimb(b, i) + carry
       IN <<t % Base>> \o BAddFrom(a, b, i + 1, t \div Base)
BAdd(a, b) == BAddFrom(a, b, 1, 0)

\* a - b for a >= b
RECURSIVE BSubFrom(_, _, _, _)
BSubFrom(a, b, i, borrow) ==
  IF i > Len(a) THEN <<>>
  ELSE LET t == BLimb(a, i) - BLimb(b, i) - borrow
       IN <<t % Base>> \o BSubFrom(a, b, i + 1, IF t < 0 THEN 1 ELSE 0)
BSub(a, b) == BNorm(BSubFrom(a, b, 1, 0))

RECURSIVE BLessFrom(_, _, _)
BLessFrom(a, b, i) ==
  IF i = 0 THEN FALSE
  ELSE IF a[i] # b[i] THEN a[i] < b[i] ELSE BLessFrom(a, b, i - 1)
BLess(a, b) == IF Len(a) # Len(b) THEN Len(a) < Len(b) ELSE BLessFrom(a, b, Len(a))

\* a * t for 0 <= t < Base
RECURSIVE BMulSmallFrom(_, _, _, _)
BMulSmallFrom(a, t, i, carry) ==
  IF i > Len(a) THEN (IF carry # 0 THEN <<carry>> ELSE <<>>)
  ELSE LET u == a[i] * t + carry
       IN <<u % Base>> \o BMulSmallFrom(a, t, i + 1, u \div Base)
BMulSmall(a, t) == IF t = 0 THEN <<>> ELSE BMulSmallFrom(a, t, 1, 0)

BShlLimbs(a, k) == IF a = <<>> THEN <<>> ELSE [i \in 1..k |-> 0] \o a

RECURSIVE BMulFrom(_, _, _)
BMulFrom(a, b, i) ==
  IF i > Len(b) THEN <<>>
  ELSE BAdd(BShlLimbs(BMulSmall(a, b[i]), i - 1), BMulFrom(a, b, i + 1))
BMul(a, b) == BMulFrom(a, b, 1)

\* The number of bits of a limb and of a number
RECURSIVE BitsOfLimb(_)
BitsOfLimb(x) == IF x = 0 THEN 0 ELSE 1 + BitsOfLimb(x \div 2)
BLen(a) == IF a = <<>> THEN 0 ELSE LimbBits * (Len(a) - 1) + BitsOfLimb(a[Len(a)])

\* a * 2^k and a \div 2^k
BShl(a, k) == BShlLimbs(BMulSmall(a, 2 ^ (k % LimbBits)), k \div LimbBits)
BShr(a, k) ==
  LET w == k \div LimbBits
      j == k % LimbBits
  IN BNorm([i \in 1..(Len(a) - w) |->
              (a[i + w] \div 2 ^ j) + (BLimb(a, i + w + 1) % 2 ^ j) * 2 ^ (LimbBits - j)])
\* bit i of a, the lowest being bit 0
BBit(a, i) == (BLimb(a, i \div LimbBits + 1) \div 2 ^ (i % LimbBits)) % 2

\* The largest t < Base with d * t <= r, by bisection from bit downwards
RECURSIVE BDigit(_, _, _, _)
BDigit(r, d, bit, t) ==
  IF bit < 0 THEN t
  ELSE IF BLess(r, BMulSmall(d, t + 2 ^ bit)) THEN BDigit(r, d, bit - 1, t)
       ELSE BDigit(r, d, bit - 1, t + 2 ^ bit)

\* Long division of num by d # 0 from limb i of num down: st = [q, r]
RECURSIVE BDivFrom(_, _, _, _)
BDivFrom(num, d, i, st) ==
  IF i = 0 THEN st
  ELSE LET r2 == BNorm(<<num[i]>> \o st.r)
           t == BDigit(r2, d, LimbBits - 1, 0)
       IN BDivFrom(num, d, i - 1, [q |-> <<t>> \o st.q, r |-> BSub(r2, BMulSmall(d, t))])
BDivMod(num, d) ==
  LET st == BDivFrom(num, d, Len(num), [q |-> <<>>, r |-> <<>>])
  IN [q |-> BNorm(st.q), r |-> st.r]

\* ---- double: a value > 0 is m * 2^e with m of Mant bits, and FZero is 0.0
\* (round to nearest, ties to even; exponents stay far from the limits)
Mant == 53

\* The double nearest to num * 2^e, or to a value just above it (sticky)
FRound(num, e, sticky) ==
  IF num = <<>> THEN FZero
  ELSE IF BLen(num) <= Mant THEN [m |-> BShl(num, Mant - BLen(num)), e |-> e - (Mant - BLen(num))]
  ELSE LET k == BLen(num) - Mant
           q == BShr(num, k)
           st == sticky \/ BShl(BShr(num, k - 1), k - 1) # num
           up == BBit(num, k - 1) = 1 /\ (st \/ BBit(q, 0) = 1)
           q2 == IF up THEN BAdd(q, <<1>>) ELSE q
       IN IF BLen(q2) > Mant THEN [m |-> BShr(q2, 1), e |-> e + k + 1]
          ELSE [m |-> q2, e |-> e + k]

FOfInt(x) == FRound(BOfInt(x), 0, FALSE)
FMul(a, b) == IF a = FZero \/ b = FZero THEN FZero ELSE FRound(BMul(a.m, b.m), a.e + b.e, FALSE)
FAdd(a, b) ==
  IF a = FZero THEN b
  ELSE IF b = FZero THEN a
  ELSE LET lo == IF a.e < b.e THEN a.e ELSE b.e
       IN FRound(BAdd(BShl(a.m, a.e - lo), BShl(b.m, b.e - lo)), lo, FALSE)
\* a / b for b # 0: the quotient of the mantissas to Mant + 3 bits or more
FDiv(a, b) ==
  IF a = FZero THEN FZero
  ELSE LET dm == BDivMod(BShl(a.m, Mant + 3), b.m)
       IN FRound(dm.q, a.e - b.e - (Mant + 3), dm.r # <<>>)
FLess(a, b) ==
  IF b = FZero THEN FALSE
  ELSE IF a = FZero THEN TRUE
  ELSE IF a.e # b.e THEN a.e < b.e ELSE BLess(a.m, b.m)
FLeq(a, b) == ~FLess(b, a)

\* ---- component_sizes(N, get_component); label[v + 1] is get_component(v)
MaxOfLabels(label) == IF label = <<>> THEN 0 ELSE CHOOSE r \in {label[i] : i \in DOMAIN label} : \A i \in DOMAIN label : label[i] <= r
CountsOf(label) ==
  [r1 \in 1..(IF label = <<>> THEN 0 ELSE MaxOfLabels(label) + 1) |->
     Cardinality({v \in DOMAIN label : label[v] = r1 - 1})]
ComponentSizesOf(label) == SelectSeq(CountsOf(label), LAMBDA c : c # 0)

RECURSIVE SumSizes(_, _)
SumSizes(x, i) == IF i = 0 THEN 0 ELSE x[i] + SumSizes(x, i - 1)

\* sum_p2 after the loop over sizes[1..i]
RECURSIVE SumP2(_, _, _)
SumP2(x, S, i) ==
  IF i = 0 THEN FZero
  ELSE LET before == SumP2(x, S, i - 1)
           p == FDiv(FOfInt(x[i]), S)
       IN IF x[i] = 0 THEN before ELSE FAdd(before, FMul(p, p))

\* summarize_components(sizes): the fields K, N and keff
Summarize(x) ==
  LET S64 == SumSizes(x, Len(x))
      sum_p2 == SumP2(x, FOfInt(S64), Len(x))
  IN IF Len(x) = 0 \/ S64 <= 0 THEN [K |-> Len(x), N |-> S64, keff |-> FZero]
     ELSE [K |-> Len(x), N |-> S64,
           keff |-> IF FLess(FZero, sum_p2) THEN FDiv(FOfInt(1), sum_p2) ELSE FZero]

\* segmentation/main.cpp: component_sizes(g.n, component_no_compress) after run()
ComponentSizes ==
  /\ spc \in {"done", "reported"}
  /\ sumpc = "idle"
  /\ sizes' = ComponentSizesOf([i \in 1..Len(parent_) |-> FindNoCompress(parent_, i - 1)])
  /\ sumpc' = "counted"
  /\ UNCHANGED <<summary, vigVars, dsuVars, segVars, cnfVars, modVars>>

SummarizeComponents ==
  /\ sumpc = "counted"
  /\ summary' = Summarize(sizes)
  /\ sumpc' = "summarized"
  /\ UNCHANGED <<sizes, vigVars, dsuVars, segVars, cnfVars, modVars>>

\* run(), then the sizes of the components
SizesNext == SegNext \/ ComponentSizes
SpecSizes == SegInit /\ [][SizesNext]_vars

\* summarize_components on its own: vectors of up to SumK sizes, each in
\* 1..SumSize, in ascending order (the order does not enter K, N or the
\* exact keff; it enters the rounding of sum_p2)
SumK == 17
SumSize == 2
RECURSIVE CountSum(_, _)
CountSum(c, s) == IF s = 0 THEN 0 ELSE c[s] + CountSum(c, s - 1)
\* c[s] is the number of components of size s
SizeVectors ==
  {[i \in 1..CountSum(c, SumSize) |->
      CHOOSE s \in 1..SumSize : CountSum(c, s - 1) < i /\ i <= CountSum(c, s)] :
     c \in {d \in [1..SumSize -> 0..SumK] : CountSum(d, SumSize) <= SumK}}

SummaryInit ==
  /\ VigIdle
  /\ DsuIdle
  /\ SegIdle
  /\ CnfIdle
  /\ ModIdle
  /\ sizes \in SizeVectors
  /\ summary = NoSummary
  /\ sumpc = "counted"

SummaryNext == SummarizeComponents
SpecSummary == SummaryInit /\ [][SummaryNext]_vars

\* ---- comp_metrics: properties
\* The roots in ascending order
RECURSIVE RootsFrom(_)
RootsFrom(r) ==
  IF r >= Len(parent_) THEN <<>>
  ELSE IF parent_[r + 1] = r THEN <<r>> \o RootsFrom(r + 1) ELSE RootsFrom(r + 1)

SizesCounted == sumpc # "idle" /\ spc \in {"done", "reported"}
SizesAsStated ==
  /\ Len(sizes) = comp_count_
  /\ \A i \in DOMAIN sizes : sizes[i] >= 1
  /\ \A i \in DOMAIN sizes : sizes[i] = comp_size_[RootsFrom(0)[i] + 1]
  /\ SumSizes(sizes, Len(sizes)) = Len(parent_)

RECURSIVE SumSquares(_, _)
SumSquares(x, i) == IF i = 0 THEN 0 ELSE x[i] * x[i] + SumSquares(x, i - 1)

Summarized == sumpc = "summarized" /\ summary.N > 0
\* (sum of sizes)^2 lies between the sum of squared sizes and K times it
KeffExact ==
  /\ SumSquares(sizes, Len(sizes)) <= summary.N * summary.N
  /\ summary.N * summary.N <= summary.K * SumSquares(sizes, Len(sizes))
KeffInRange == FLeq(FOfInt(1), summary.keff) /\ FLeq(summary.keff, FOfInt(summary.K))

\* C32: after run(), component_sizes(N, component_no_compress) returns
\* exactly num_components() entries, each at least 1, each equal to
\* comp_size of the corresponding root, and summing to N; for N > 0 the
\* summary satisfies 1 <= keff <= K, i.e. (sum of sizes)^2 lies between the
\* sum of squared sizes and K times that sum.
C32_SizesAndKeff ==
  /\ SizesCounted => SizesAsStated
  /\ Summarized => (KeffInRange /\ KeffExact)

\* The part about the sizes, after a run.
SizesAfterRun == SizesCounted => SizesAsStated

\* The inequalities on the sizes themselves, and the lower end for keff.
KeffExactInRange == Summarized => KeffExact
KeffAtLeastOne == Summarized => FLeq(FOfInt(1), summary.keff)
\* keff is within [1, K] for fewer than SumK components.
KeffInRangeBelow == (Summarized /\ summary.K < SumK) => KeffInRange

\* SumK components of one vertex each were summarized and keff is above K.
C32_Witness ==
  /\ sumpc = "summarized"
  /\ summary.K = SumK
  /\ summary.N = SumK
  /\ FLess(FOfInt(summary.K), summary.keff)

\* A run that merged was counted: fewer sizes than vertices, one above 1.
SizesCountedAfterMerge ==
  /\ SizesCounted
  /\ Len(sizes) >= 2
  /\ Len(sizes) < Len(parent_)


\* ---------------------------------------------------------------------------
\* The three stages of the modularity guard and their counters.

\* e_ab_ub as stated: max(0, min(vol[a] - 2 internal_lb[a],
\* vol[b] - 2 internal_lb[b], vol[a], vol[b])).
StatedEabUb(a, b) ==
  QMax(QInt(0),
       QMin(QMin(QSub(comp_vol_[a + 1], QMul(QInt(2), lb_comp_internal_w_[a + 1])),
                 QSub(comp_vol_[b + 1], QMul(QInt(2), lb_comp_internal_w_[b + 1]))),
            QMin(comp_vol_[a + 1], comp_vol_[b + 1])))

\* e_ab_ub / m - gamma * vol[a] * vol[b] / (2 m^2), for m # 0
StatedDqMax(a, b) ==
  QSub(QDiv(StatedEabUb(a, b), sum_weights_),
       QDiv(QMul(cfg_.gamma, QMul(comp_vol_[a + 1], comp_vol_[b + 1])),
            QMul(QInt(2), QMul(sum_weights_, sum_weights_))))

StatedUbNegative(a, b) ==
  /\ sum_weights_ # QInt(0)
  /\ QLess(StatedDqMax(a, b), QInt(0))

CountersStep(lba, ubr, amb) ==
  /\ mod_guard_lb_accepts_' = mod_guard_lb_accepts_ + lba
  /\ mod_guard_ub_rejects_' = mod_guard_ub_rejects_ + ubr
  /\ mod_guard_ambiguous_' = mod_guard_ambiguous_ + amb

\* The iteration at hand counts its edge once, at the stage that settles it,
\* the upper-bound stage on the stated bound.
ClassifiedOn(ubNegative(_, _)) ==
  LET e == edges[ei + 1]
      a == FindNoCompress(parent_, e.u)
      b == FindNoCompress(parent_, e.v)
      lb == AcceptByModularityLowerbound(a, b, WAbLb(e), DqTolerance(a, b))
  IN IF AtGuard
     THEN \/ TRUE \in lb /\ CountersStep(1, 0, 0)
          \/ FALSE \in lb /\ ubNegative(a, b) /\ CountersStep(0, 1, 0)
          \/ FALSE \in lb /\ ~ubNegative(a, b) /\ CountersStep(0, 0, 1)
     ELSE CountersStep(0, 0, 0)

GuardedIteration == spc = "loop" /\ cfg_.use_modularity_guard /\ ei' = ei + 1

CountersAddUp ==
  (spc \in {"loop", "done"} /\ cfg_.use_modularity_guard) =>
     mod_guard_lb_accepts_ + mod_guard_ub_rejects_ + mod_guard_ambiguous_ = gate_passed

\* C33: with the guard on, an edge of positive weight whose endpoints are in
\* different components and that passes the gate is counted by exactly one of
\* the three counters: lower-bound accepts if the lower-bound test accepts,
\* else upper-bound rejects exactly when
\* e_ab_ub / m - gamma vol[a] vol[b] / (2 m^2) < 0, else ambiguous; any other
\* edge changes no counter.
C33_GuardClassification ==
  [][GuardedIteration => ClassifiedOn(StatedUbNegative)]_vars

\* The same on the bound reject_by_modularity_upperbound computes.
CodeUbNegative(a, b) == RejectByModularityUpperbound(a, b, QInt(0))

ClassifiedAsComputed ==
  [][GuardedIteration => ClassifiedOn(CodeUbNegative)]_vars

\* The stated classification where no volume is negative.
VolumesNonNegative == \A i \in DOMAIN comp_vol_ : QLeq(QInt(0), comp_vol_[i])

ClassifiedOnNonNegativeVolumes ==
  [][(GuardedIteration /\ VolumesNonNegative) => ClassifiedOn(StatedUbNegative)]_vars


\* ---- guarded runs on graphs with a negative edge
\* Runs of four nodes and five edges on five of the six pairs of nodes, the
\* weights positive but for at most one of -GuardNeg, under each policy for
\* ambiguous edges.
GuardNodes == 4
GuardEdges == 5
GuardNeg == 2

GuardPairs == {q \in Nodes(GuardNodes) \X Nodes(GuardNodes) : q[1] < q[2]}

GuardWeights(P) ==
  {f \in [P -> {-GuardNeg} \cup 1..MaxWeight] : Cardinality({p \in P : f[p] < 0}) <= 1}

GuardEdgeSets == UNION {{<<P, f>> : f \in GuardWeights(P)} :
                            P \in {Q \in SUBSET GuardPairs : Cardinality(Q) = GuardEdges}}

GuardPolicies ==
  {[DefaultConfig EXCEPT !.sizeExponent = <<1, 1>>, !.ambiguous_policy = pol] :
     pol \in {"Accept", "Reject", "GateMargin"}}

RunStartGuard ==
  /\ spc = "idle"
  /\ cfg_.sizeExponent[2] = 1
  /\ Len(parent_) = GuardNodes
  /\ \E pf \in GuardEdgeSets :
       LET E == {[u |-> p[1], v |-> p[2], w |-> QInt(pf[2][p])] : p \in pf[1]}
       IN \E es \in SortedOrders(E) : RunEnter(E, es)

GuardInit == SegInit /\ Len(parent_) = GuardNodes

GuardNext ==
  \/ \E c \in GuardPolicies : SetConfig(c)
  \/ RunStartGuard
  \/ RunStep

SpecGuard == GuardInit /\ [][GuardNext]_vars

\* A run has ended that rejected, at the upper-bound stage, an edge into a
\* component of negative volume.
C33_NegativeVolumeWitness ==
  /\ spc = "done"
  /\ cfg_.use_modularity_guard
  /\ mod_guard_ub_rejects_ >= 1
  /\ mod_guard_lb_accepts_ >= 1
  /\ \E i \in DOMAIN comp_vol_ : QLess(comp_vol_[i], QInt(0))


\* ---------------------------------------------------------------------------
\* The policies for an ambiguous edge.

\* The iteration at hand classifies its edge as ambiguous.
AmbiguousStep == spc = "loop" /\ mod_guard_ambiguous_' = mod_guard_ambiguous_ + 1

\* The iteration at hand unites the components of the endpoints of its edge
\* and stores no candidate.
EdgeMerged ==
  /\ comp_count_' = comp_count_ - 1
  /\ SameSet(parent_', edges[ei + 1].u, edges[ei + 1].v)
  /\ intercomp_candidates_' = intercomp_candidates_

\* The iteration at hand stores its edge as a candidate and leaves the
\* partition as it is.
EdgePushed ==
  /\ comp_count_' = comp_count_
  /\ ~SameSet(parent_', edges[ei + 1].u, edges[ei + 1].v)
  /\ intercomp_candidates_' = Append(intercomp_candidates_, edges[ei + 1])

\* (g - d) >= gate_margin_ratio * g for g = min(gate(a), gate(b)) and d the
\* distance of the edge at hand, on the state before the iteration.
StatedMargin ==
  LET e == edges[ei + 1]
      a == FindNoCompress(parent_, e.u)
      b == FindNoCompress(parent_, e.v)
      d == QDiv(QDiv(QInt(1), e.w), d_scale_)
      ga == QAdd(max_dist_[a + 1], QDiv(k_, SizeTerm(comp_size_[a + 1], cfg_.sizeExponent)))
      gb == QAdd(max_dist_[b + 1], QDiv(k_, SizeTerm(comp_size_[b + 1], cfg_.sizeExponent)))
      g == IF QLess(ga, gb) THEN ga ELSE gb
  IN QLeq(QMul(cfg_.gate_margin_ratio, g), QSub(g, d))

\* C34: an ambiguous edge is merged under the policy Accept; it is stored as
\* a candidate and not merged under the policy Reject; under GateMargin it is
\* merged exactly when (g - d) >= gate_margin_ratio * g, g the smaller of the
\* gates of the two components before the merge, and stored as a candidate
\* and not merged otherwise.
C34_AmbiguousPolicy ==
  [][AmbiguousStep =>
       IF cfg_.ambiguous_policy = "Accept" THEN EdgeMerged
       ELSE IF cfg_.ambiguous_policy = "Reject" THEN EdgePushed
       ELSE IF StatedMargin THEN EdgeMerged
       ELSE EdgePushed]_vars

\* A run under GateMargin has ended whose only edge past the gate was
\* ambiguous and, the margin test failing, was stored as a candidate.
C34_Witness ==
  /\ spc = "done"
  /\ cfg_.use_modularity_guard
  /\ cfg_.ambiguous_policy = "GateMargin"
  /\ mod_guard_ambiguous_ = 1
  /\ gate_passed = 1
  /\ Len(mlog) = 0
  /\ Len(intercomp_candidates_) >= 1

\* The same with the margin test passing: the edge was merged.
AmbiguousMergedOnMargin ==
  /\ spc = "done"
  /\ cfg_.use_modularity_guard
  /\ cfg_.ambiguous_policy = "GateMargin"
  /\ mod_guard_ambiguous_ = 1
  /\ gate_passed = 1
  /\ Len(mlog) = 1


\* ---------------------------------------------------------------------------
\* The bounds of the guard against the weights of the input.

AllPositive == \A i \in DOMAIN edges : QLess(QInt(0), edges[i].w)

\* The total weight of the input edges that have one endpoint in the
\* component of a and the other in the component of b (both endpoints in the
\* component of a for a = b).
RECURSIVE WeightBetween(_, _, _)
WeightBetween(a, b, i) ==
  IF i = 0 THEN QInt(0)
  ELSE LET ru == FindNoCompress(parent_, edges[i].u)
           rv == FindNoCompress(parent_, edges[i].v)
       IN IF {ru, rv} = {a, b} THEN QAdd(WeightBetween(a, b, i - 1), edges[i].w)
          ELSE WeightBetween(a, b, i - 1)

CurrentRoots == {FindNoCompress(parent_, x) : x \in 0..(Len(parent_) - 1)}

InGuardedRun == spc \in {"loop", "done"} /\ cfg_.use_modularity_guard /\ AllPositive

\* internal_lb of every root is at most the weight inside its component.
InternalLbBelow ==
  (InGuardedRun /\ Len(lb_comp_internal_w_) >= Len(parent_)) =>
    \A r \in CurrentRoots :
      QLeq(lb_comp_internal_w_[r + 1], WeightBetween(r, r, Len(edges)))

\* internal_lb of the component of a node never decreases.
InternalLbGrows ==
  (InGuardedRun /\ ei' = ei + 1 /\ Len(lb_comp_internal_w_) >= Len(parent_)) =>
    \A x \in 0..(Len(parent_) - 1) :
      QLeq(lb_comp_internal_w_[FindNoCompress(parent_, x) + 1],
           lb_comp_internal_w_'[FindNoCompress(parent_', x) + 1])

\* e_ab_ub of two distinct roots is at least the weight between them.
EabUbAbove ==
  (InGuardedRun /\ Len(comp_vol_) >= Len(parent_)) =>
    \A a, b \in CurrentRoots :
      a # b => QLeq(WeightBetween(a, b, Len(edges)), EabUb(a, b))

\* The modularity change of merging the components of the roots a and b:
\* e_ab / m - gamma vol_a vol_b / (2 m^2), on the weights of the input.
RECURSIVE VolumeOf(_, _)
VolumeOf(r, i) ==
  IF i = 0 THEN QInt(0)
  ELSE QAdd(VolumeOf(r, i - 1),
            QMul(QInt((IF FindNoCompress(parent_, edges[i].u) = r THEN 1 ELSE 0)
                      + (IF FindNoCompress(parent_, edges[i].v) = r THEN 1 ELSE 0)),
                 edges[i].w))

TrueDq(a, b) ==
  LET m == SumW(edges, Len(edges))
  IN QSub(QDiv(WeightBetween(a, b, Len(edges)), m),
          QDiv(QMul(cfg_.gamma, QMul(VolumeOf(a, Len(edges)), VolumeOf(b, Len(edges)))),
               QMul(QInt(2), QMul(m, m))))

\* An edge is rejected at the upper-bound stage only if merging would lower
\* the modularity.
UbRejectOnlyIfNegative ==
  (InGuardedRun /\ AtGuard /\ mod_guard_ub_rejects_' = mod_guard_ub_rejects_ + 1) =>
    QLess(TrueDq(FindNoCompress(parent_, edges[ei + 1].u),
                 FindNoCompress(parent_, edges[ei + 1].v)), QInt(0))

\* C35: with the guard on and all weights positive, at every step of run()
\* internal_lb of each root is at most the total weight of the input edges
\* inside its component and never decreases as the component grows; e_ab_ub
\* is at least the total weight of the edges between the two components; an
\* edge is rejected at the upper-bound stage only if the modularity change of
\* merging the two components is negative.
C35_GuardBoundsSound ==
  /\ [](InternalLbBelow /\ EabUbAbove)
  /\ [][InternalLbGrows /\ UbRejectOnlyIfNegative]_vars

\* A guarded run on positive weights has ended with a merge and an
\* upper-bound reject.
UbRejectOnPositiveWeights ==
  /\ spc = "done"
  /\ cfg_.use_modularity_guard
  /\ AllPositive
  /\ mod_guard_ub_rejects_ >= 1
  /\ Len(mlog) >= 1

\* The second of two guarded runs, after a reset made with the guard off,
\* has ended with an upper-bound reject of its only edge.
C35_Witness ==
  /\ spc = "done"
  /\ first_run # <<>>
  /\ cfg_.use_modularity_guard
  /\ AllPositive
  /\ Len(edges) = 1
  /\ mod_guard_ub_rejects_ = 1


\* ---------------------------------------------------------------------------
\* What an iteration of the main loop of run() may change.

Iteration == spc = "loop" /\ ei' = ei + 1

\* The iteration at hand unites two components.
MergeDecision == comp_count_' = comp_count_ - 1

\* The edge at hand has positive weight and endpoints in different
\* components, and the iteration does not merge them: it fails the gate, is
\* rejected by the guard or is ambiguous and rejected.
RejectingDecision ==
  /\ QLess(QInt(0), edges[ei + 1].w)
  /\ FindNoCompress(parent_, edges[ei + 1].u) # FindNoCompress(parent_, edges[ei + 1].v)
  /\ ~MergeDecision

\* The edge at hand has positive weight and both endpoints in one component.
SkipIntra ==
  /\ QLess(QInt(0), edges[ei + 1].w)
  /\ FindNoCompress(parent_, edges[ei + 1].u) = FindNoCompress(parent_, edges[ei + 1].v)

PartitionKept ==
  \A x, y \in 0..(Len(parent_) - 1) : SameSet(parent_', x, y) <=> SameSet(parent_, x, y)

CandidatesStep ==
  intercomp_candidates_' =
    IF RejectingDecision THEN Append(intercomp_candidates_, edges[ei + 1])
    ELSE intercomp_candidates_

\* The candidates are edges of the vector, in the order of the vector.
CandidatesInOrder ==
  spc \in {"loop", "done"} =>
    \E f \in [1..Len(intercomp_candidates_) -> 1..ei] :
      /\ \A j \in DOMAIN f : edges[f[j]] = intercomp_candidates_[j]
      /\ \A i, j \in DOMAIN f : i < j => f[i] < f[j]

\* C36 as stated: an iteration that does not merge leaves the partition and
\* size, max_dist, vol and internal_lb as they are; an iteration that
\* rejects its edge appends it once to the candidate list, no other
\* iteration touches the list, and the list is in processing order.
C36_OnlyMergeChanges ==
  /\ [][(Iteration /\ ~MergeDecision) =>
          /\ PartitionKept
          /\ UNCHANGED <<comp_size_, max_dist_, comp_vol_, lb_comp_internal_w_>>]_vars
  /\ [][Iteration => CandidatesStep]_vars
  /\ []CandidatesInOrder

\* internal_lb after an iteration that does not merge: with the guard on, an
\* edge inside a component adds its weight to internal_lb of the root.
InternalLbAfterSkip ==
  lb_comp_internal_w_' =
    IF SkipIntra /\ cfg_.use_modularity_guard
    THEN [lb_comp_internal_w_ EXCEPT ![FindNoCompress(parent_, edges[ei + 1].u) + 1] =
            QAdd(@, edges[ei + 1].w)]
    ELSE lb_comp_internal_w_

\* C36, amended: an iteration that does not merge leaves the partition and
\* size, max_dist and vol as they are, and internal_lb too but for an edge
\* inside a component, whose weight is added to internal_lb of the root when
\* the guard is on; the candidate list is changed as stated.
C36_OnlyMergeAndIntraChange ==
  /\ [][(Iteration /\ ~MergeDecision) =>
          /\ PartitionKept
          /\ UNCHANGED <<comp_size_, max_dist_, comp_vol_>>
          /\ InternalLbAfterSkip]_vars
  /\ [][Iteration => CandidatesStep]_vars
  /\ []CandidatesInOrder

\* A guarded run has ended with one merge, a later edge inside the merged
\* component, which raised internal_lb above the weight of the merge edge,
\* and a stored candidate.
C36_Witness ==
  /\ spc = "done"
  /\ cfg_.use_modularity_guard
  /\ Len(mlog) = 1
  /\ QLess(mlog[1].w, lb_comp_internal_w_[FindNoCompress(parent_, mlog[1].u) + 1])
  /\ Len(intercomp_candidates_) >= 1


\* ---------------------------------------------------------------------------
\* Calls of reset, set_config and run in any order, up to two runs.
LifeNodes == 2

LifeConfigs ==
  {[DefaultConfig EXCEPT !.sizeExponent = <<1, 1>>, !.use_modularity_guard = g] :
     g \in BOOLEAN}

\* set_config after run() has returned; the results of the run are no longer
\* read under the configuration that produced them.
SetConfigAfterRun(c) ==
  /\ spc \in {"done", "reconfigured"}
  /\ first_run = <<>>
  /\ cfg_' = c
  /\ spc' = "reconfigured"
  /\ UNCHANGED <<sum_weights_, comp_size_, max_dist_, lb_comp_internal_w_, comp_vol_, k_,
                 d_scale_, intercomp_candidates_, mod_guard_ub_rejects_,
                 mod_guard_ambiguous_, mod_guard_lb_accepts_>>
  /\ UNCHANGED <<edges, ei, out, input, mlog, gate_passed, first_run, vigVars, dsuVars, restVars>>

\* reset(nn, k), before a run or after the first one; the next call may be
\* set_config or run.
ResetCall(nn, k) ==
  /\ \/ spc = "idle" /\ UNCHANGED first_run
     \/ /\ spc \in {"done", "reconfigured"}
        /\ first_run = <<>>
        /\ first_run' = [results |-> RunResults, input |-> input, left |-> edges]
  /\ parent_' = [i \in 1..nn |-> i - 1]
  /\ rank_' = [i \in 1..nn |-> 0]
  /\ comp_count_' = nn
  /\ mod_guard_lb_accepts_' = 0
  /\ mod_guard_ub_rejects_' = 0
  /\ mod_guard_ambiguous_' = 0
  /\ comp_size_' = [i \in 1..nn |-> 1]
  /\ IF cfg_.use_modularity_guard
     THEN /\ comp_vol_' = [i \in 1..nn |-> QInt(0)]
          /\ lb_comp_internal_w_' = [i \in 1..nn |-> QInt(0)]
     ELSE UNCHANGED <<comp_vol_, lb_comp_internal_w_>>
  /\ max_dist_' = [i \in 1..nn |-> QInt(0)]
  /\ k_' = k
  /\ d_scale_' = QInt(1)
  /\ intercomp_candidates_' = <<>>
  /\ mlog' = <<>>
  /\ gate_passed' = 0
  /\ spc' = "idle"
  /\ UNCHANGED <<sum_weights_, cfg_, edges, ei, out, input, ret, part, vigVars, restVars>>

\* The volume pass of run(es) writes comp_vol_ at every endpoint: past the
\* end of the vector when comp_vol_ is shorter than the number of nodes.
WritesPastEnd(es) ==
  /\ cfg_.use_modularity_guard
  /\ \E i \in DOMAIN es : es[i].u >= Len(comp_vol_) \/ es[i].v >= Len(comp_vol_)

\* run(edges) from any state the calls above can leave; a write past the end
\* of comp_vol_ is undefined behaviour: the program ends or goes on with a
\* state of which nothing is known.
RunStartLife ==
  /\ spc = "idle"
  /\ cfg_.sizeExponent[2] = 1
  /\ \E E \in EdgeSets(Len(parent_)) : \E es \in SortedOrders(E) :
       IF WritesPastEnd(es)
       THEN /\ spc' \in {"crashed", "undefined"}
            /\ input' = E
            /\ edges' = es
            /\ UNCHANGED <<segMembers, ei, out, mlog, gate_passed, first_run,
                           vigVars, dsuVars, restVars>>
       ELSE RunEnter(E, es)

LifeInit == SegInit /\ Len(parent_) <= LifeNodes

LifeNext ==
  \/ \E c \in LifeConfigs : SetConfig(c)
  \/ \E c \in LifeConfigs : SetConfigAfterRun(c)
  \/ \E nn \in 0..LifeNodes, k2 \in 0..MaxK2 : ResetCall(nn, QNorm(k2, 2))
  \/ RunStartLife
  \/ RunStep

SpecLife == LifeInit /\ [][LifeNext]_vars

Ones(nn) == [i \in 1..nn |-> 1]
Zeros(nn) == [i \in 1..nn |-> QInt(0)]

\* run() can be called next.
AtRunEntry == spc = "idle" /\ cfg_.sizeExponent[2] = 1

\* C38: whatever calls of the constructor, reset(n, k) and set_config
\* preceded, at entry to run() size and max_dist have exactly n entries, all
\* 1 and all 0, and with use_modularity_guard on vol and internal_lb have
\* exactly n entries, all 0.
C38_ArraysAtRunEntry ==
  AtRunEntry =>
    LET nn == Len(parent_)
    IN /\ comp_size_ = Ones(nn)
       /\ max_dist_ = Zeros(nn)
       /\ cfg_.use_modularity_guard =>
            (comp_vol_ = Zeros(nn) /\ lb_comp_internal_w_ = Zeros(nn))

\* size and max_dist are as stated.
SizeAndMaxDistAtRunEntry ==
  AtRunEntry => (comp_size_ = Ones(Len(parent_)) /\ max_dist_ = Zeros(Len(parent_)))

\* vol and internal_lb are as stated before the first run when they are not
\* shorter than n.
VolAtFirstRunEntry ==
  (AtRunEntry /\ first_run = <<>> /\ edges = <<>> /\ cfg_.use_modularity_guard
     /\ Len(comp_vol_) = Len(parent_)) =>
    (comp_vol_ = Zeros(Len(parent_)) /\ lb_comp_internal_w_ = Zeros(Len(parent_)))

\* No run has been made; reset was called with the guard off for more nodes
\* than the constructor was given, and the guard has been switched on since.
C38_Witness ==
  /\ AtRunEntry
  /\ first_run = <<>>
  /\ edges = <<>>
  /\ cfg_.use_modularity_guard
  /\ Len(comp_vol_) < Len(parent_)

\* The run that follows has written past the end of comp_vol_.
RunPastEnd == spc \in {"crashed", "undefined"} /\ WritesPastEnd(edges)

\* reset was called with the guard off after a guarded run: vol holds the
\* volumes of that run at the entry to the next.
StaleVolAtRunEntry ==
  /\ AtRunEntry
  /\ first_run # <<>>
  /\ cfg_.use_modularity_guard
  /\ Len(comp_vol_) = Len(parent_)
  /\ comp_vol_ # Zeros(Len(parent_))


\* ---------------------------------------------------------------------------
\* Sizes and volumes of the components during run().

RECURSIVE SumOfVol(_)
SumOfVol(R) ==
  IF R = {} THEN QInt(0)
  ELSE LET r == CHOOSE x \in R : TRUE
       IN QAdd(comp_vol_[r + 1], SumOfVol(R \ {r}))

Members(r) == {x \in 0..(Len(parent_) - 1) : FindNoCompress(parent_, x) = r}

InRun == spc \in {"loop", "done"}

\* size of each root counts its members; the merges so far account for the
\* components that are gone.
SizesCountMembers ==
  InRun =>
    /\ \A r \in CurrentRoots : comp_size_[r + 1] = Cardinality(Members(r))
    /\ Len(parent_) - comp_count_ = Len(mlog)

\* With the guard on, vol of each root is the sum of the weighted degrees of
\* its members and the volumes of the roots sum to 2 m.
VolumesAsDegrees ==
  (InRun /\ cfg_.use_modularity_guard /\ Len(comp_vol_) >= Len(parent_)) =>
    /\ \A r \in CurrentRoots : comp_vol_[r + 1] = VolumeOf(r, Len(edges))
    /\ SumOfVol(CurrentRoots) = QMul(QInt(2), SumW(edges, Len(edges)))

\* C37: at every step of run(), size of each current root is the number of
\* nodes whose root it is and n - num_components() is the number of merges
\* so far; with the guard on, vol of each current root is the sum of the
\* weighted degrees of its members and the volumes of the roots sum to 2 m.
C37_SizesAndVolumes == SizesCountMembers /\ VolumesAsDegrees

\* The second of two guarded runs has ended with a merge, the reset before
\* it made with the guard off.
C37_Witness ==
  /\ spc = "done"
  /\ first_run # <<>>
  /\ cfg_.use_modularity_guard
  /\ ~first_run.results.vol = Zeros(Len(first_run.results.vol))
  /\ Len(comp_vol_) = Len(parent_)
  /\ Len(mlog) >= 1
  /\ SumOfVol(CurrentRoots) # QMul(QInt(2), SumW(edges, Len(edges)))

\* A guarded run has ended with merges that left a component of three nodes.
SizesAfterMerges ==
  /\ spc = "done"
  /\ cfg_.use_modularity_guard
  /\ \E r \in CurrentRoots : Cardinality(Members(r)) >= 3


\* ---------------------------------------------------------------------------
\* The prefix offsets of the active batches under a wide buffer budget.
\* Builds of MaxVars variables on OffsetClauses clauses of three or four
\* literals, with budgets up to OffsetBuf contributions: a batch can hold
\* more contributions than the width of an offset can count, each variable
\* holding fewer.
OffsetClauses == 2
OffsetBuf == 12

OffsetsInit ==
  /\ n = MaxVars
  /\ clauses \in [1..OffsetClauses -> {c \in NormClauses(MaxVars) : Len(c) >= 3}]
  /\ tau = MaxVars
  /\ num_threads \in 1..MaxThreads
  /\ maxbuf \in 1..OffsetBuf
  /\ mpc = "call_naive"
  /\ naive_edges = <<>>
  /\ result_edges = <<>>
  /\ contrib_counts = <<>>
  /\ batches = <<>>
  /\ rounds = 0
  /\ r_idx = 0
  /\ var_to_active = <<>>
  /\ active = <<>>
  /\ batch_count_cur = 0
  /\ worker_edges = <<>>
  /\ sync = [count |-> 0, gen |-> 0]
  /\ pc = <<>>
  /\ wr = <<>>
  /\ wci = <<>>
  /\ wi = <<>>
  /\ wpos0 = <<>>
  /\ wgen = <<>>
  /\ hist = NoHist
  /\ DsuIdle
  /\ SegIdle
  /\ RestIdle

SpecOffsets == OffsetsInit /\ [][Next]_vars

BatchTotal(ab) == SumRange(contrib_counts, ab.start, ab.end)

\* The offsets of an active batch are the sums of the counts before them and
\* every segment ends within the buffer.
OffsetsTrue(ab) ==
  \A idx \in DOMAIN ab.offsets :
    /\ ab.offsets[idx] = SumRange(contrib_counts, ab.start, ab.start + idx - 1)
    /\ ab.offsets[idx] + ab.counts32[idx] <= Cardinality(DOMAIN ab.buffer)

\* C39: in every active batch the stored offset of each variable is the sum
\* of the contribution counts of the variables before it in the batch and
\* offset + count does not pass the length of the buffer, also when the
\* total of the batch is above the largest value of the width; a batch whose
\* total is above it makes the construction fail.
C39_PrefixOffsets ==
  \A bi \in DOMAIN active :
    /\ OffsetsTrue(active[bi])
    /\ BatchTotal(active[bi]) > U32Max => mpc = "terminated"

\* The first half alone.
PrefixOffsetsTrue == \A bi \in DOMAIN active : OffsetsTrue(active[bi])

\* Both hold for the batches whose total the width can count.
OffsetsTrueWithinWidth ==
  \A bi \in DOMAIN active : BatchTotal(active[bi]) <= U32Max => OffsetsTrue(active[bi])

\* The offsets are right whenever the build goes on after prepare_round.
OffsetsTrueUnlessWrapped == mpc # "undefined" => PrefixOffsetsTrue

\* prepare_round has built a batch of more contributions than the width
\* counts, no variable of which has more than the width counts, and stored
\* an offset that is not the sum of the counts before it.
C39_Witness ==
  /\ mpc = "undefined"
  /\ \E bi \in DOMAIN active :
       /\ BatchTotal(active[bi]) > U32Max
       /\ \A a \in active[bi].start..active[bi].end : contrib_counts[a] <= U32Max
       /\ \E idx \in DOMAIN active[bi].offsets :
            active[bi].offsets[idx] # SumRange(contrib_counts, active[bi].start, active[bi].start + idx - 1)

\* A build has returned that had a batch of more contributions than the
\* width counts, every offset of it within the width: its write cursors
\* wrapped during FILL.
WideBatchReturned ==
  /\ mpc = "returned"
  /\ \E i \in DOMAIN batches : SumRange(contrib_counts, batches[i].start, batches[i].end) > U32Max
  /\ hist.stray


\* ---------------------------------------------------------------------------
\* The early stop of strongest_inter_component_edges.

\* The pairs of final representatives that a candidate edge joins.
CandidatePairs ==
  {{FinalRoot(intercomp_candidates_[i].u), FinalRoot(intercomp_candidates_[i].v)} :
     i \in {j \in 1..Len(intercomp_candidates_) :
              FinalRoot(intercomp_candidates_[j].u) # FinalRoot(intercomp_candidates_[j].v)}}

RecordedPairs == {{o.u, o.v} : o \in out}

\* C40: the threshold of the early stop is C (C - 1) / 2 for the final
\* number of components C, whatever the width of the product, and the
\* report holds an entry for every pair of final components that a
\* candidate edge joins.
C40_EarlyStopThreshold ==
  /\ spc \in {"done", "reported"} =>
       TargetPairs(comp_count_) = (comp_count_ * (comp_count_ - 1)) \div 2
  /\ spc = "reported" => RecordedPairs = CandidatePairs

\* Both hold where the product fits the width.
EarlyStopWithoutWrap ==
  (spc \in {"done", "reported"} /\ comp_count_ * (comp_count_ - 1) < UMod) =>
    /\ TargetPairs(comp_count_) = (comp_count_ * (comp_count_ - 1)) \div 2
    /\ spc = "reported" => RecordedPairs = CandidatePairs

\* A report over four final components, whose product 12 does not fit the
\* width, that was cut short: the candidates join more pairs than it holds.
C40_Witness ==
  /\ spc = "reported"
  /\ comp_count_ * (comp_count_ - 1) >= UMod
  /\ Cardinality(CandidatePairs) > Cardinality(out)

====
